---- MODULE Spec2Model ----
(***************************************************************************)
(* Model of the fintrack backend: the relational store (transactions,      *)
(* budgets, pockets), the look-aside cache, the CRUD handlers and the      *)
(* analytics services.                                                     *)
(*                                                                         *)
(* Conventions.                                                            *)
(*  - Option<T> is a sequence of length <= 1: None == <<>>, Some(x).       *)
(*  - A NaiveDate is a day number (days since 2024-01-01); the text        *)
(*    "YYYY-MM-DD" is the triple <<y, m, d>> of its zero-padded fields,    *)
(*    which need not name a calendar day.  ParseDate / FormatYmd / FormatYm*)
(*    convert between the two.  Lexicographic order of the fixed-width     *)
(*    texts is the lexicographic order of the field tuples.                *)
(*  - A Decimal amount is an integer number of minor units; a Decimal      *)
(*    quotient keeps DecDigits fractional digits (DecScale units per one)  *)
(*    and is rounded half-to-even as rust_decimal does at its last digit.  *)
(*  - created_at is the insertion sequence number of the row.              *)
(*  - response is the answer to the last request: its status (Ok or the    *)
(*    AppError variant), the shape of its body, and the body.              *)
(*  - The handlers of one table are actions taking the authenticated       *)
(*    caller as their parameter u; the analytics actions are the service   *)
(*    functions, which the expense and the income service share up to the  *)
(*    sign they keep.                                                      *)
(***************************************************************************)
EXTENDS Integers, Sequences, FiniteSets, TLC

VARIABLES transactions, budgets, pockets, cache, cacheEnabled, users,
          nextTxId, nextBudgetId, nextPocketSeq, response, inflight

vars == <<transactions, budgets, pockets, cache, cacheEnabled, users,
          nextTxId, nextBudgetId, nextPocketSeq, response, inflight>>

----------------------------------------------------------------------------
(* Option *)

None == <<>>

Some(x) == <<x>>

IsSome(o) == Len(o) = 1

Unwrap(o) == o[1]

----------------------------------------------------------------------------
(* Bounds of the model *)

\* fractional digits kept by a Decimal quotient in the model
DecDigits == 4

\* largest number of transactions in a store the analytics are run on
MaxRows == 3

\* largest BIGSERIAL id handed out in the CRUD specifications
MaxId == 2

\* largest number of rows of one owned table in the CRUD specification
MaxTableRows == 1

\* largest number of rows of the three owned tables together
MaxCrudRows == 2

\* entries the cache holds at a time
MaxCached == 1

----------------------------------------------------------------------------
(* Calendar: chrono::NaiveDate *)

\* the calendar window of the model; the epoch is its first day
CalendarYears == 2024..2025

FirstYear == CHOOSE y \in CalendarYears : \A z \in CalendarYears : y <= z

IsLeap(y) == (y % 4 = 0 /\ y % 100 # 0) \/ y % 400 = 0

DaysInMonth(y, m) ==
    IF m \in {4, 6, 9, 11} THEN 30
    ELSE IF m = 2 THEN (IF IsLeap(y) THEN 29 ELSE 28)
    ELSE 31

DaysInYear(y) == IF IsLeap(y) THEN 366 ELSE 365

RECURSIVE DaysBeforeYear(_)
DaysBeforeYear(y) ==
    IF y <= FirstYear THEN 0 ELSE DaysBeforeYear(y - 1) + DaysInYear(y - 1)

RECURSIVE DaysBeforeMonth(_, _)
DaysBeforeMonth(y, m) ==
    IF m <= 1 THEN 0 ELSE DaysBeforeMonth(y, m - 1) + DaysInMonth(y, m - 1)

\* NaiveDate::from_ymd: the day number of a calendar day
DayNumber(y, m, d) == DaysBeforeYear(y) + DaysBeforeMonth(y, m) + (d - 1)

\* NaiveDate::parse_from_str(text, "%Y-%m-%d") succeeds
DateValid(text) ==
    /\ text[1] \in CalendarYears
    /\ text[2] \in 1..12
    /\ text[3] \in 1..DaysInMonth(text[1], text[2])

ParseDate(text) == DayNumber(text[1], text[2], text[3])

RECURSIVE YearOf(_, _)
YearOf(n, y) == IF n < DaysInYear(y) THEN <<y, n>> ELSE YearOf(n - DaysInYear(y), y + 1)

RECURSIVE MonthOf(_, _, _)
MonthOf(y, n, m) ==
    IF n < DaysInMonth(y, m) THEN <<m, n>> ELSE MonthOf(y, n - DaysInMonth(y, m), m + 1)

\* date.format("%Y-%m-%d")
FormatYmd(n) ==
    LET yr == YearOf(n, FirstYear)
        mo == MonthOf(yr[1], yr[2], 1)
    IN  <<yr[1], mo[1], mo[2] + 1>>

\* a month label that always carries the first year of the calendar
FormatYmOfFirstYear(n) == <<FirstYear, FormatYmd(n)[2]>>

\* date.format("%Y-%m")
FormatYm(n) == <<FormatYmd(n)[1], FormatYmd(n)[2]>>

\* String::cmp on two fixed-width, zero-padded texts
RECURSIVE TextLess(_, _)
TextLess(a, b) ==
    IF a = <<>> \/ b = <<>> THEN a = <<>> /\ b # <<>>
    ELSE IF Head(a) # Head(b) THEN Head(a) < Head(b)
    ELSE TextLess(Tail(a), Tail(b))

\* date.and_hms_opt(h, m, s).and_utc(), as seconds since the epoch day
AndHms(n, h, m, s) == n * 86400 + h * 3600 + m * 60 + s

\* a DATE column compared with a timestamp: the date at midnight UTC
DateAsTimestamp(n) == n * 86400

----------------------------------------------------------------------------
(* rust_decimal::Decimal *)

RECURSIVE Pow10(_)
Pow10(k) == IF k = 0 THEN 1 ELSE 10 * Pow10(k - 1)

DecScale == Pow10(DecDigits)

Abs(x) == IF x < 0 THEN -x ELSE x

\* a / b for a >= 0, b > 0, in units of 1/DecScale, rounded half-to-even
DecDiv(a, b) ==
    LET q == (a * DecScale) \div b
        r == (a * DecScale) % b
    IN  IF 2 * r > b \/ (2 * r = b /\ q % 2 = 1) THEN q + 1 ELSE q

----------------------------------------------------------------------------
(* Domains shared by the specifications *)

Users == {"u1", "u2"}

PeriodTypes == {"weekly", "monthly", "quarterly", "yearly"}

Min(a, b) == IF a < b THEN a ELSE b

\* fetch_optional: the row of a set of at most one row
FetchOptional(S) == IF S = {} THEN None ELSE Some(CHOOSE x \in S : TRUE)

\* the response of the last request: Ok or the AppError variant, and the body.
\* A body of shape "rows" is the sequence of the rows returned (empty for an
\* error and for a delete); a successful response of any other shape carries
\* one body of that shape ("page": a paginated list response).
Resp(status, body) == [status |-> status, shape |-> "rows", body |-> body]

RespAs(shape, body) == [status |-> "Ok", shape |-> shape, body |-> <<body>>]

NoResponse == Resp("none", <<>>)

\* the requests being served at a time
Slots == 1..2

\* no request is being served
NoRequests == [s \in Slots |-> [pc |-> "idle"]]

----------------------------------------------------------------------------
(* utils/cache.rs: CacheService over a key-value store *)

\* a get that never finds an entry
CacheGetNever(c, key) == None

\* CacheService::get: a miss when disabled or absent
CacheGet(c, key) == IF cacheEnabled /\ key \in DOMAIN c THEN Some(c[key]) ELSE None

\* a set that writes whether the cache is enabled or not
CacheSetAlways(c, key, value) ==
    [k \in DOMAIN c \cup {key} |-> IF k = key THEN value ELSE c[k]]

\* CacheService::set: SET key value EX ttl
CacheSet(c, key, value) ==
    IF cacheEnabled
    THEN [k \in DOMAIN c \cup {key} |-> IF k = key THEN value ELSE c[k]]
    ELSE c

\* a delete that reads a key ending in "*" as a pattern over the user's keys
CacheDeleteByPattern(c, key) ==
    IF ~cacheEnabled THEN c
    ELSE IF key.kind = "budgets:*"
    THEN [k \in {e \in DOMAIN c : ~(e.kind = "budgets" /\ e.user = key.user)} |-> c[k]]
    ELSE [k \in DOMAIN c \ {key} |-> c[k]]

\* a delete that removes nothing
CacheDeleteNothing(c, key) == c

\* CacheService::delete: DEL key, the key taken literally
CacheDelete(c, key) ==
    IF cacheEnabled THEN [k \in DOMAIN c \ {key} |-> c[k]] ELSE c

EmptyCache == [k \in {} |-> <<>>]

----------------------------------------------------------------------------
(* Budgets: models/budget.rs, repositories/budget.rs, services/budget.rs,  *)
(* handlers/budget.rs                                                      *)

\* key of the literal string "budgets:{user}:*" deleted by the mutations
BudgetsWildcardKey(u) == [kind |-> "budgets:*", user |-> u, q |-> <<>>]

\* CreateBudgetRequest::validate
ValidCreateBudget(req) ==
    /\ req.category # ""
    /\ req.target_amount >= 1
    /\ req.period_type \in PeriodTypes

\* UpdateBudgetRequest::validate: present fields only
ValidUpdateBudget(req) ==
    /\ IsSome(req.category) => Unwrap(req.category) # ""
    /\ IsSome(req.target_amount) => Unwrap(req.target_amount) >= 1
    /\ IsSome(req.period_type) => Unwrap(req.period_type) \in PeriodTypes

\* the WHERE clause of the duplicate check in create
BudgetOverlaps(b, u, category, period_start, period_end) ==
    /\ b.user_id = u
    /\ b.category = category
    /\ b.is_active
    /\ b.period_start <= period_end
    /\ b.period_end >= period_start

\* BudgetRepository::find_by_id
BudgetFindById(id) == {b \in budgets : b.id = id}

\* PostgresBudgetRepository::create: the error it returns, or "Ok"
BudgetCreateStatus(u, req) ==
    IF ~DateValid(req.period_start) \/ ~DateValid(req.period_end) THEN "ValidationError"
    ELSE IF ParseDate(req.period_end) <= ParseDate(req.period_start) THEN "ValidationError"
    ELSE IF \E b \in budgets :
                BudgetOverlaps(b, u, req.category,
                               ParseDate(req.period_start), ParseDate(req.period_end))
         THEN "ValidationError"
    ELSE "Ok"

\* the row INSERTed by create
BudgetNewRow(u, req) ==
    [id |-> nextBudgetId, user_id |-> u, category |-> req.category,
     target_amount |-> req.target_amount, period_type |-> req.period_type,
     period_start |-> ParseDate(req.period_start),
     period_end |-> ParseDate(req.period_end),
     is_active |-> TRUE, created_at |-> nextBudgetId]

\* handlers::budget::create_budget
create_budget(u, req) ==
    LET status == IF ~ValidCreateBudget(req) THEN "ValidationError"
                  ELSE BudgetCreateStatus(u, req)
    IN  /\ nextBudgetId <= MaxId
        /\ IF status = "Ok"
           THEN /\ budgets' = budgets \cup {BudgetNewRow(u, req)}
                /\ nextBudgetId' = nextBudgetId + 1
                /\ cache' = CacheDelete(cache, BudgetsWildcardKey(u))
                /\ response' = Resp("Ok", <<BudgetNewRow(u, req)>>)
           ELSE /\ UNCHANGED <<budgets, nextBudgetId, cache>>
                /\ response' = Resp(status, <<>>)
        /\ UNCHANGED <<transactions, pockets, cacheEnabled, users, nextTxId, nextPocketSeq,
                       inflight>>

\* the SET list of update: present fields replace, absent fields stay
BudgetUpdatedRow(b, req) ==
    [b EXCEPT
       !.category = IF IsSome(req.category) THEN Unwrap(req.category) ELSE @,
       !.target_amount = IF IsSome(req.target_amount) THEN Unwrap(req.target_amount) ELSE @,
       !.period_type = IF IsSome(req.period_type) THEN Unwrap(req.period_type) ELSE @,
       !.period_start = IF IsSome(req.period_start)
                        THEN ParseDate(Unwrap(req.period_start)) ELSE @,
       !.period_end = IF IsSome(req.period_end)
                      THEN ParseDate(Unwrap(req.period_end)) ELSE @,
       !.is_active = IF IsSome(req.is_active) THEN Unwrap(req.is_active) ELSE @]

\* PostgresBudgetRepository::update: the error it returns, or "Ok"
BudgetUpdateStatus(id, u, req) ==
    IF BudgetFindById(id) = {} THEN "NotFound"
    ELSE IF (CHOOSE b \in BudgetFindById(id) : TRUE).user_id # u THEN "Forbidden"
    ELSE IF IsSome(req.period_start) /\ ~DateValid(Unwrap(req.period_start))
         THEN "ValidationError"
    ELSE IF IsSome(req.period_end) /\ ~DateValid(Unwrap(req.period_end))
         THEN "ValidationError"
    ELSE "Ok"

\* handlers::budget::update_budget
update_budget(id, u, req) ==
    LET status == IF ~ValidUpdateBudget(req) THEN "ValidationError"
                  ELSE BudgetUpdateStatus(id, u, req)
    IN  /\ IF status = "Ok"
           THEN LET old == CHOOSE b \in BudgetFindById(id) : TRUE
                    new == BudgetUpdatedRow(old, req)
                IN  /\ budgets' = (budgets \ {old}) \cup {new}
                    /\ cache' = CacheDelete(cache, BudgetsWildcardKey(u))
                    /\ response' = Resp("Ok", <<new>>)
           ELSE /\ UNCHANGED <<budgets, cache>>
                /\ response' = Resp(status, <<>>)
        /\ UNCHANGED <<transactions, pockets, cacheEnabled, users, nextTxId, nextBudgetId,
                       nextPocketSeq, inflight>>

\* PostgresBudgetRepository::delete: DELETE ... WHERE id = $1 AND user_id = $2
BudgetDeleteRows(id, u) == {b \in budgets : b.id = id /\ b.user_id = u}

\* handlers::budget::delete_budget
delete_budget(id, u) ==
    /\ IF BudgetDeleteRows(id, u) # {}
       THEN /\ budgets' = budgets \ BudgetDeleteRows(id, u)
            /\ cache' = CacheDelete(cache, BudgetsWildcardKey(u))
            /\ response' = Resp("Ok", <<>>)
       ELSE /\ UNCHANGED <<budgets, cache>>
            /\ response' = Resp("NotFound", <<>>)
    /\ UNCHANGED <<transactions, pockets, cacheEnabled, users, nextTxId, nextBudgetId,
                   nextPocketSeq, inflight>>

\* BudgetService::get_budget_by_id behind handlers::budget::get_budget_by_id
get_budget_by_id(id, u) ==
    /\ response' =
         IF BudgetFindById(id) = {} THEN Resp("NotFound", <<>>)
         ELSE IF (CHOOSE b \in BudgetFindById(id) : TRUE).user_id # u
              THEN Resp("Forbidden", <<>>)
         ELSE Resp("Ok", FetchOptional(BudgetFindById(id)))
    /\ UNCHANGED <<transactions, budgets, pockets, cache, cacheEnabled, users, nextTxId,
                   nextBudgetId, nextPocketSeq, inflight>>

----------------------------------------------------------------------------
(* Transactions: models/transaction.rs, repositories/transaction.rs,       *)
(* services/transaction.rs, handlers/transaction.rs                        *)

\* LIMIT when the query names none
DefaultLimit == 20

\* the category column of a transaction is nullable: a row without a category
\* carries this marker, which no request can write
NullCategory == "NULL"

\* format!("user:{}", id)
user_cache_key(u) == [kind |-> "user", user |-> u, q |-> <<>>]

\* format!("user:{}:pockets", id)
user_pockets_cache_key(u) == [kind |-> "user:pockets", user |-> u, q |-> <<>>]

\* "transactions:{user}:page:{}:limit:{}:category:{}:from:{}:to:{}:type:{}"
TransactionsKey(u, query) ==
    [kind |-> "transactions", user |-> u,
     q |-> <<IF IsSome(query.page) THEN Unwrap(query.page) ELSE 1,
             IF IsSome(query.limit) THEN Unwrap(query.limit) ELSE DefaultLimit,
             IF IsSome(query.category) THEN Unwrap(query.category) ELSE "",
             IF IsSome(query.transaction_type) THEN Unwrap(query.transaction_type) ELSE "">>]

\* the text of an amount: whether Decimal::from_str accepts it, and its value
AmountText(n) == [parses |-> TRUE, value |-> n]

BadAmountText == [parses |-> FALSE, value |-> 0]

\* CreateTransactionRequest::validate and UpdateTransactionRequest::validate
ValidTransactionRequest(req) ==
    /\ req.description # ""
    /\ req.category # ""
    /\ req.transaction_type \in {"income", "expense"}

\* the parse errors of create and update, before the statement runs
TxParseStatus(req) ==
    IF ~req.amount.parses THEN "ValidationError"
    ELSE IF ~DateValid(req.transaction_date) THEN "ValidationError"
    ELSE "Ok"

\* TransactionRepository::find_by_id
TxFindById(id) == {t \in transactions : t.id = id}

\* the WHERE clause built by build_where_clause
TxMatches(t, u, query) ==
    /\ t.user_id = u
    /\ IsSome(query.category) => t.category = Unwrap(query.category)
    /\ IsSome(query.transaction_type) => t.transaction_type = Unwrap(query.transaction_type)

\* ORDER BY transaction_date DESC, created_at DESC
TxBefore(a, b) ==
    \/ a.transaction_date > b.transaction_date
    \/ a.transaction_date = b.transaction_date /\ a.created_at > b.created_at

RECURSIVE TxOrdered(_)
TxOrdered(S) ==
    IF S = {} THEN <<>>
    ELSE LET first == CHOOSE t \in S : \A o \in S \ {t} : TxBefore(t, o)
         IN  <<first>> \o TxOrdered(S \ {first})

\* the rows from OFFSET on, at most LIMIT of them
Page(rows, limit, offset) ==
    IF offset >= Len(rows) THEN <<>>
    ELSE SubSeq(rows, offset + 1, Min(Len(rows), offset + limit))

\* PostgresTransactionRepository::find_by_user_id
TxFindByUserId(u, query) ==
    LET page == IF IsSome(query.page) THEN Unwrap(query.page) ELSE 1
        limit == IF IsSome(query.limit) THEN Unwrap(query.limit) ELSE DefaultLimit
    IN  Page(TxOrdered({t \in transactions : TxMatches(t, u, query)}),
             limit, (page - 1) * limit)

\* PostgresTransactionRepository::count_by_user_id
TxCountByUserId(u, query) == Cardinality({t \in transactions : TxMatches(t, u, query)})

\* TransactionService::list_transactions: the validation of the query
TxListStatus(query) ==
    IF IsSome(query.page) /\ Unwrap(query.page) < 1 THEN "ValidationError"
    ELSE IF IsSome(query.limit) /\ (Unwrap(query.limit) < 1 \/ Unwrap(query.limit) > 100)
         THEN "ValidationError"
    ELSE IF IsSome(query.transaction_type)
            /\ Unwrap(query.transaction_type) \notin {"income", "expense"}
         THEN "ValidationError"
    ELSE "Ok"

\* TransactionService::list_transactions: the ListTransactionsResponse
TxListResponse(u, query) ==
    [data |-> TxFindByUserId(u, query),
     page |-> IF IsSome(query.page) THEN Unwrap(query.page) ELSE 1,
     limit |-> IF IsSome(query.limit) THEN Unwrap(query.limit) ELSE DefaultLimit,
     total_items |-> TxCountByUserId(u, query)]

\* handlers::transaction::get_transactions
get_transactions(u, query) ==
    LET key == TransactionsKey(u, query)
        hit == CacheGet(cache, key)
    IN  /\ IF IsSome(hit)
           THEN /\ response' = RespAs("page", Unwrap(hit))
                /\ UNCHANGED cache
           ELSE IF TxListStatus(query) # "Ok"
           THEN /\ response' = Resp(TxListStatus(query), <<>>)
                /\ UNCHANGED cache
           ELSE /\ response' = RespAs("page", TxListResponse(u, query))
                /\ cache' = CacheSet(cache, key, TxListResponse(u, query))
        /\ UNCHANGED <<transactions, budgets, pockets, cacheEnabled, users, nextTxId,
                       nextBudgetId, nextPocketSeq, inflight>>

\* TransactionService::get_transaction_by_id behind get_transaction_by_id
get_transaction_by_id(id, u) ==
    /\ response' =
         IF TxFindById(id) = {} THEN Resp("NotFound", <<>>)
         ELSE IF (CHOOSE t \in TxFindById(id) : TRUE).user_id # u
              THEN Resp("Forbidden", <<>>)
         ELSE Resp("Ok", FetchOptional(TxFindById(id)))
    /\ UNCHANGED <<transactions, budgets, pockets, cache, cacheEnabled, users, nextTxId,
                   nextBudgetId, nextPocketSeq, inflight>>

\* the row INSERTed by create
TxNewRow(u, req) ==
    [id |-> nextTxId, user_id |-> u, account_id |-> req.account_id,
     description |-> req.description, amount |-> req.amount.value,
     category |-> req.category, transaction_type |-> req.transaction_type,
     transaction_date |-> ParseDate(req.transaction_date), created_at |-> nextTxId]

\* the cache keys the transaction mutations delete
TxInvalidate(c, u) == CacheDelete(CacheDelete(c, user_cache_key(u)), user_pockets_cache_key(u))

\* handlers::transaction::create_transaction
create_transaction(u, req) ==
    LET status == IF ~ValidTransactionRequest(req) THEN "ValidationError"
                  ELSE TxParseStatus(req)
    IN  /\ nextTxId <= MaxId
        /\ IF status = "Ok"
           THEN /\ transactions' = transactions \cup {TxNewRow(u, req)}
                /\ nextTxId' = nextTxId + 1
                /\ cache' = TxInvalidate(cache, u)
                /\ response' = Resp("Ok", <<TxNewRow(u, req)>>)
           ELSE /\ UNCHANGED <<transactions, nextTxId, cache>>
                /\ response' = Resp(status, <<>>)
        /\ UNCHANGED <<budgets, pockets, cacheEnabled, users, nextBudgetId, nextPocketSeq,
                       inflight>>

\* UPDATE ... WHERE id = $8 AND user_id = $9: the rows it changes
TxUpdateRows(id, u) == {t \in transactions : t.id = id /\ t.user_id = u}

\* the SET list of update: every field is replaced
TxUpdatedRow(t, req) ==
    [t EXCEPT !.account_id = req.account_id, !.description = req.description,
              !.amount = req.amount.value, !.category = req.category,
              !.transaction_type = req.transaction_type,
              !.transaction_date = ParseDate(req.transaction_date)]

\* handlers::transaction::update_transaction
update_transaction(id, u, req) ==
    LET status == IF ~ValidTransactionRequest(req) THEN "ValidationError"
                  ELSE IF TxParseStatus(req) # "Ok" THEN TxParseStatus(req)
                  ELSE IF TxUpdateRows(id, u) = {} THEN "NotFound"
                  ELSE "Ok"
    IN  /\ IF status = "Ok"
           THEN LET new == {TxUpdatedRow(t, req) : t \in TxUpdateRows(id, u)}
                IN  /\ transactions' = (transactions \ TxUpdateRows(id, u)) \cup new
                    /\ cache' = TxInvalidate(cache, u)
                    /\ response' = Resp("Ok", FetchOptional(new))
           ELSE /\ UNCHANGED <<transactions, cache>>
                /\ response' = Resp(status, <<>>)
        /\ UNCHANGED <<budgets, pockets, cacheEnabled, users, nextTxId, nextBudgetId,
                       nextPocketSeq, inflight>>

\* a DELETE that leaves the owner out of its WHERE clause
TxDeleteRowsOfAnyOwner(id, u) == {t \in transactions : t.id = id}

\* DELETE FROM transactions WHERE id = $1 AND user_id = $2: the rows it removes
TxDeleteRows(id, u) == {t \in transactions : t.id = id /\ t.user_id = u}

\* handlers::transaction::delete_transaction
delete_transaction(id, u) ==
    /\ IF TxDeleteRows(id, u) # {}
       THEN /\ transactions' = transactions \ TxDeleteRows(id, u)
            /\ cache' = TxInvalidate(cache, u)
            /\ response' = Resp("Ok", <<>>)
       ELSE /\ UNCHANGED <<transactions, cache>>
            /\ response' = Resp("NotFound", <<>>)
    /\ UNCHANGED <<budgets, pockets, cacheEnabled, users, nextTxId, nextBudgetId,
                   nextPocketSeq, inflight>>

\* the expiry of a cache entry when its TTL has run out
cache_expire(key) ==
    /\ key \in DOMAIN cache
    /\ cache' = [k \in DOMAIN cache \ {key} |-> cache[k]]
    /\ UNCHANGED <<transactions, budgets, pockets, cacheEnabled, users, nextTxId,
                   nextBudgetId, nextPocketSeq, response, inflight>>

----------------------------------------------------------------------------
(* Pockets: models/pocket.rs, repositories/pocket.rs, services/pocket.rs,  *)
(* handlers/pocket.rs                                                      *)

\* the identifiers Uuid::new_v4 may draw
PocketIds == {"p1", "p2"}

\* CreatePocketRequest::validate
ValidCreatePocket(req) == req.name # "" /\ req.emoji # ""

\* UpdatePocketRequest::validate: present fields only
ValidUpdatePocket(req) ==
    /\ IsSome(req.name) => Unwrap(req.name) # ""
    /\ IsSome(req.emoji) => Unwrap(req.emoji) # ""

\* PocketRepository::find_by_id
PocketFindById(id) == {p \in pockets : p.id = id}

\* ORDER BY created_at DESC
RECURSIVE PocketOrdered(_)
PocketOrdered(S) ==
    IF S = {} THEN <<>>
    ELSE LET first == CHOOSE p \in S : \A o \in S \ {p} : p.created_at > o.created_at
         IN  <<first>> \o PocketOrdered(S \ {first})

\* PostgresPocketRepository::find_by_user_id
PocketFindByUserId(u) == PocketOrdered({p \in pockets : p.user_id = u})

\* handlers::pocket::get_pockets
get_pockets(u) ==
    LET key == user_pockets_cache_key(u)
        hit == CacheGet(cache, key)
    IN  /\ IF IsSome(hit)
           THEN /\ response' = Resp("Ok", Unwrap(hit))
                /\ UNCHANGED cache
           ELSE /\ response' = Resp("Ok", PocketFindByUserId(u))
                /\ cache' = CacheSet(cache, key, PocketFindByUserId(u))
        /\ UNCHANGED <<transactions, budgets, pockets, cacheEnabled, users, nextTxId,
                       nextBudgetId, nextPocketSeq, inflight>>

\* PocketService::get_pocket_by_id behind handlers::pocket::get_pocket_by_id
get_pocket_by_id(id, u) ==
    /\ response' =
         IF PocketFindById(id) = {} THEN Resp("NotFound", <<>>)
         ELSE IF (CHOOSE p \in PocketFindById(id) : TRUE).user_id # u
              THEN Resp("Forbidden", <<>>)
         ELSE Resp("Ok", FetchOptional(PocketFindById(id)))
    /\ UNCHANGED <<transactions, budgets, pockets, cache, cacheEnabled, users, nextTxId,
                   nextBudgetId, nextPocketSeq, inflight>>

\* a row INSERTed with an opening balance
PocketNewRowWithOpeningBalance(id, u, req) ==
    [id |-> id, user_id |-> u, name |-> req.name, emoji |-> req.emoji,
     balance |-> 100, created_at |-> nextPocketSeq]

\* the row INSERTed by create, under the identifier drawn
PocketNewRow(id, u, req) ==
    [id |-> id, user_id |-> u, name |-> req.name, emoji |-> req.emoji,
     balance |-> 0, created_at |-> nextPocketSeq]

\* handlers::pocket::create_pocket
create_pocket(id, u, req) ==
    /\ PocketFindById(id) = {}
    /\ nextPocketSeq <= MaxId
    /\ IF ValidCreatePocket(req)
       THEN /\ pockets' = pockets \cup {PocketNewRow(id, u, req)}
            /\ nextPocketSeq' = nextPocketSeq + 1
            /\ cache' = CacheDelete(cache, user_pockets_cache_key(u))
            /\ response' = Resp("Ok", <<PocketNewRow(id, u, req)>>)
       ELSE /\ UNCHANGED <<pockets, nextPocketSeq, cache>>
            /\ response' = Resp("ValidationError", <<>>)
    /\ UNCHANGED <<transactions, budgets, cacheEnabled, users, nextTxId, nextBudgetId,
                   inflight>>

\* a SET list without COALESCE: an absent field becomes NULL
PocketUpdatedRowWithoutCoalesce(p, req) ==
    [p EXCEPT !.name = IF IsSome(req.name) THEN Unwrap(req.name) ELSE "NULL",
              !.emoji = IF IsSome(req.emoji) THEN Unwrap(req.emoji) ELSE "NULL"]

\* SET name = COALESCE($1, name), emoji = COALESCE($2, emoji)
PocketUpdatedRow(p, req) ==
    [p EXCEPT !.name = IF IsSome(req.name) THEN Unwrap(req.name) ELSE @,
              !.emoji = IF IsSome(req.emoji) THEN Unwrap(req.emoji) ELSE @]

\* PostgresPocketRepository::update: the error it returns, or "Ok"
PocketUpdateStatus(id, u) ==
    IF PocketFindById(id) = {} THEN "NotFound"
    ELSE IF (CHOOSE p \in PocketFindById(id) : TRUE).user_id # u THEN "Forbidden"
    ELSE "Ok"

\* handlers::pocket::update_pocket
update_pocket(id, u, req) ==
    LET status == IF ~ValidUpdatePocket(req) THEN "ValidationError"
                  ELSE PocketUpdateStatus(id, u)
    IN  /\ IF status = "Ok"
           THEN LET old == CHOOSE p \in PocketFindById(id) : TRUE
                    new == PocketUpdatedRow(old, req)
                IN  /\ pockets' = (pockets \ {old}) \cup {new}
                    /\ cache' = CacheDelete(cache, user_pockets_cache_key(u))
                    /\ response' = Resp("Ok", <<new>>)
           ELSE /\ UNCHANGED <<pockets, cache>>
                /\ response' = Resp(status, <<>>)
        /\ UNCHANGED <<transactions, budgets, cacheEnabled, users, nextTxId, nextBudgetId,
                       nextPocketSeq, inflight>>

\* DELETE FROM pockets WHERE id = $1 AND user_id = $2: the rows it removes
PocketDeleteRows(id, u) == {p \in pockets : p.id = id /\ p.user_id = u}

\* handlers::pocket::delete_pocket
delete_pocket(id, u) ==
    /\ IF PocketDeleteRows(id, u) # {}
       THEN /\ pockets' = pockets \ PocketDeleteRows(id, u)
            /\ cache' = CacheDelete(cache, user_pockets_cache_key(u))
            /\ response' = Resp("Ok", <<>>)
       ELSE /\ UNCHANGED <<pockets, cache>>
            /\ response' = Resp("NotFound", <<>>)
    /\ UNCHANGED <<transactions, budgets, cacheEnabled, users, nextTxId, nextBudgetId,
                   nextPocketSeq, inflight>>

----------------------------------------------------------------------------
(* Users: models/user.rs, repositories/user.rs, services/user.rs,          *)
(* handlers/user.rs                                                        *)

\* the users table once every caller has registered: the password and the
\* timestamps are not part of any response compared here
RegisteredUsers ==
    {[id |-> u, name |-> "n", email |-> u, hide_balance |-> FALSE] : u \in Users}

\* PostgresUserRepository::find_by_id
UserFindById(u) == {r \in users : r.id = u}

\* UserService::get_user_by_id: NotFound without a row
UserResponse(u) ==
    IF UserFindById(u) = {} THEN Resp("NotFound", <<>>)
    ELSE Resp("Ok", FetchOptional(UserFindById(u)))

\* handlers::user::get_me
get_me(u) ==
    LET key == user_cache_key(u)
        hit == CacheGet(cache, key)
    IN  /\ IF IsSome(hit)
           THEN /\ response' = Resp("Ok", Unwrap(hit))
                /\ UNCHANGED cache
           ELSE /\ response' = UserResponse(u)
                /\ cache' = IF UserResponse(u).status = "Ok"
                            THEN CacheSet(cache, key, UserResponse(u).body)
                            ELSE cache
        /\ UNCHANGED <<transactions, budgets, pockets, cacheEnabled, users, nextTxId,
                       nextBudgetId, nextPocketSeq, inflight>>

\* UPDATE users SET <field> = $1 WHERE id = $2 RETURNING ..: fetch_one fails
\* with RowNotFound, that is AppError::NotFound, when no row has the id
UserUpdate(u, new) ==
    IF UserFindById(u) = {}
    THEN /\ response' = Resp("NotFound", <<>>)
         /\ UNCHANGED <<users, cache>>
    ELSE /\ users' = (users \ UserFindById(u)) \cup {new}
         /\ cache' = CacheDelete(cache, user_cache_key(u))
         /\ response' = Resp("Ok", <<new>>)

\* handlers::user::update_name: the body is validated before the service runs
update_name(u, name) ==
    /\ IF name = ""
       THEN /\ response' = Resp("ValidationError", <<>>)
            /\ UNCHANGED <<users, cache>>
       ELSE UserUpdate(u, [(CHOOSE r \in UserFindById(u) : TRUE) EXCEPT !.name = name])
    /\ UNCHANGED <<transactions, budgets, pockets, cacheEnabled, nextTxId, nextBudgetId,
                   nextPocketSeq, inflight>>

\* handlers::user::update_hide_balance
update_hide_balance(u, hide_balance) ==
    /\ UserUpdate(u, [(CHOOSE r \in UserFindById(u) : TRUE)
                        EXCEPT !.hide_balance = hide_balance])
    /\ UNCHANGED <<transactions, budgets, pockets, cacheEnabled, nextTxId, nextBudgetId,
                   nextPocketSeq, inflight>>

\* "budgets:{user}:page:{}:limit:{}:category:{}:period_type:{}:active:{}"
BudgetsKey(u, query) ==
    [kind |-> "budgets", user |-> u,
     q |-> <<IF IsSome(query.page) THEN Unwrap(query.page) ELSE 1,
             IF IsSome(query.limit) THEN Unwrap(query.limit) ELSE DefaultLimit,
             IF IsSome(query.category) THEN Unwrap(query.category) ELSE "",
             IF IsSome(query.period_type) THEN Unwrap(query.period_type) ELSE "",
             query.is_active>>]

\* build_where_clause of the budget repository; category ILIKE '%c%' on the
\* labels of the model is equality
BudgetMatches(b, u, query) ==
    /\ b.user_id = u
    /\ IsSome(query.category) => b.category = Unwrap(query.category)
    /\ IsSome(query.period_type) => b.period_type = Unwrap(query.period_type)
    /\ IsSome(query.is_active) => b.is_active = Unwrap(query.is_active)

\* ORDER BY created_at DESC
RECURSIVE BudgetOrdered(_)
BudgetOrdered(S) ==
    IF S = {} THEN <<>>
    ELSE LET first == CHOOSE b \in S : \A o \in S \ {b} : b.created_at > o.created_at
         IN  <<first>> \o BudgetOrdered(S \ {first})

\* PostgresBudgetRepository::find_by_user_id
BudgetFindByUserId(u, query) ==
    LET page == IF IsSome(query.page) THEN Unwrap(query.page) ELSE 1
        limit == IF IsSome(query.limit) THEN Unwrap(query.limit) ELSE DefaultLimit
    IN  Page(BudgetOrdered({b \in budgets : BudgetMatches(b, u, query)}),
             limit, (page - 1) * limit)

\* BudgetService::list_budgets: the validation of the query
BudgetListStatus(query) ==
    IF IsSome(query.page) /\ Unwrap(query.page) < 1 THEN "ValidationError"
    ELSE IF IsSome(query.limit) /\ (Unwrap(query.limit) < 1 \/ Unwrap(query.limit) > 100)
         THEN "ValidationError"
    ELSE IF IsSome(query.period_type) /\ Unwrap(query.period_type) \notin PeriodTypes
         THEN "ValidationError"
    ELSE "Ok"

\* BudgetService::list_budgets: the ListBudgetsResponse
BudgetListResponse(u, query) ==
    [data |-> BudgetFindByUserId(u, query),
     page |-> IF IsSome(query.page) THEN Unwrap(query.page) ELSE 1,
     limit |-> IF IsSome(query.limit) THEN Unwrap(query.limit) ELSE DefaultLimit,
     total_items |-> Cardinality({b \in budgets : BudgetMatches(b, u, query)})]

\* handlers::budget::get_budgets
get_budgets(u, query) ==
    LET key == BudgetsKey(u, query)
        hit == CacheGet(cache, key)
    IN  /\ IF IsSome(hit)
           THEN /\ response' = RespAs("page", Unwrap(hit))
                /\ UNCHANGED cache
           ELSE IF BudgetListStatus(query) # "Ok"
           THEN /\ response' = Resp(BudgetListStatus(query), <<>>)
                /\ UNCHANGED cache
           ELSE /\ response' = RespAs("page", BudgetListResponse(u, query))
                /\ cache' = CacheSet(cache, key, BudgetListResponse(u, query))
        /\ UNCHANGED <<transactions, budgets, pockets, cacheEnabled, users, nextTxId,
                       nextBudgetId, nextPocketSeq, inflight>>

----------------------------------------------------------------------------
(* SpecBudget: budget requests executed one at a time *)

BudgetCategories == {"food", "rent"}

BadDateText == <<2024, 2, 30>>

\* January, February, both; and two periods that do not end after they start
BudgetPeriodTexts ==
    {<<<<2024, 1, 1>>, <<2024, 1, 31>>>>, <<<<2024, 2, 1>>, <<2024, 2, 29>>>>,
     <<<<2024, 1, 1>>, <<2024, 2, 29>>>>, <<<<2024, 1, 31>>, <<2024, 1, 1>>>>,
     <<<<2024, 2, 1>>, <<2024, 2, 1>>>>, <<BadDateText, <<2024, 2, 29>>>>}

BudgetCreateReqs ==
    {[category |-> c, target_amount |-> 100, period_type |-> "monthly",
      period_start |-> p[1], period_end |-> p[2]] :
        c \in BudgetCategories, p \in BudgetPeriodTexts}
    \cup {[category |-> "food", target_amount |-> t, period_type |-> pt,
           period_start |-> <<2024, 1, 1>>, period_end |-> <<2024, 1, 31>>] :
            t \in {0, 100}, pt \in {"monthly", "daily"}}

\* requests that change one field, several, or none
BudgetUpdateReqs ==
    LET none == [category |-> None, target_amount |-> None, period_type |-> None,
                 period_start |-> None, period_end |-> None, is_active |-> None]
    IN  {none}
        \cup {[none EXCEPT !.category = Some(c)] : c \in BudgetCategories}
        \cup {[none EXCEPT !.is_active = Some(a)] : a \in BOOLEAN}
        \cup {[none EXCEPT !.period_start = Some(d)] : d \in {<<2024, 2, 1>>, BadDateText}}
        \cup {[none EXCEPT !.period_end = Some(d)] : d \in {<<2024, 2, 1>>}}
        \cup {[none EXCEPT !.target_amount = Some(0)]}
        \cup {[none EXCEPT !.period_type = Some("monthly"), !.target_amount = Some(100)]}

InitCommon ==
    /\ transactions = {}
    /\ budgets = {}
    /\ pockets = {}
    /\ cache = EmptyCache
    /\ cacheEnabled = TRUE
    /\ users = RegisteredUsers
    /\ inflight = NoRequests
    /\ nextTxId = 1
    /\ nextBudgetId = 1
    /\ nextPocketSeq = 1
    /\ response = NoResponse

\* one budget request of any caller
NextBudget ==
    \E u \in Users :
        \/ \E req \in BudgetCreateReqs : create_budget(u, req)
        \/ \E id \in 1..MaxId, req \in BudgetUpdateReqs : update_budget(id, u, req)
        \/ \E id \in 1..MaxId : delete_budget(id, u)
        \/ \E id \in 1..MaxId : get_budget_by_id(id, u)

SpecBudget == InitCommon /\ [][NextBudget]_vars

----------------------------------------------------------------------------
(* C1 *)

\* two distinct active budgets of one user and one category whose inclusive
\* periods share a day
OverlappingActivePair(a, b) ==
    /\ a.id # b.id
    /\ a.user_id = b.user_id
    /\ a.category = b.category
    /\ a.is_active /\ b.is_active
    /\ a.period_start <= b.period_end
    /\ b.period_start <= a.period_end

\* C1: in every state reached by create_budget, update_budget and
\* delete_budget calls executed one at a time, no two distinct active budgets
\* of the same user and category have overlapping inclusive periods.
C1_NoOverlappingActiveBudgets ==
    \A a \in budgets, b \in budgets : ~OverlappingActivePair(a, b)

----------------------------------------------------------------------------
(* SpecCrud: the handlers of the three owned tables, one request at a time *)

TotalRows == Cardinality(transactions) + Cardinality(budgets) + Cardinality(pockets)

\* the cache holds at most MaxCached entries: a read that would add one more
\* waits for an expiry
CacheRoom(key) == Cardinality(DOMAIN cache \cup {key}) <= MaxCached

DefaultTxQuery == [page |-> None, limit |-> None, category |-> None, transaction_type |-> None]

DefaultBudgetQuery ==
    [page |-> None, limit |-> None, category |-> None, period_type |-> None,
     is_active |-> None]

TxReq(amount, type, date) ==
    [account_id |-> None, description |-> "d", amount |-> amount, category |-> "food",
     transaction_type |-> type, transaction_date |-> date]

\* the expiry of any entry
CacheExpire == \E key \in DOMAIN cache : cache_expire(key)

\* a request on the three owned tables issued by caller u: one well-formed
\* body per create and per update
CrudRequest(u) ==
    LET budgetCreate == [category |-> "food", target_amount |-> 100,
                         period_type |-> "monthly", period_start |-> <<2024, 1, 1>>,
                         period_end |-> <<2024, 1, 31>>]
        budgetUpdate == [category |-> None, target_amount |-> None, period_type |-> None,
                         period_start |-> None, period_end |-> None,
                         is_active |-> Some(FALSE)]
        txCreate == TxReq(AmountText(-50), "expense", <<2024, 1, 1>>)
        txUpdate == TxReq(AmountText(-30), "expense", <<2024, 1, 1>>)
        room == TotalRows < MaxCrudRows
    IN  \/ CacheRoom(TransactionsKey(u, DefaultTxQuery))
           /\ get_transactions(u, DefaultTxQuery)
        \/ \E id \in 1..MaxId : get_transaction_by_id(id, u)
        \/ /\ Cardinality(transactions) < MaxTableRows /\ room
           /\ create_transaction(u, txCreate)
        \/ \E id \in 1..MaxId : update_transaction(id, u, txUpdate)
        \/ \E id \in 1..MaxId : delete_transaction(id, u)
        \/ CacheRoom(BudgetsKey(u, DefaultBudgetQuery))
           /\ get_budgets(u, DefaultBudgetQuery)
        \/ \E id \in 1..MaxId : get_budget_by_id(id, u)
        \/ /\ Cardinality(budgets) < MaxTableRows /\ room
           /\ create_budget(u, budgetCreate)
        \/ \E id \in 1..MaxId : update_budget(id, u, budgetUpdate)
        \/ \E id \in 1..MaxId : delete_budget(id, u)
        \/ CacheRoom(user_pockets_cache_key(u)) /\ get_pockets(u)
        \/ \E id \in PocketIds : get_pocket_by_id(id, u)
        \/ /\ Cardinality(pockets) < MaxTableRows /\ room
           /\ \E id \in PocketIds :
                  create_pocket(id, u, [name |-> "cash", emoji |-> "e"])
        \/ \E id \in PocketIds :
               update_pocket(id, u, [name |-> Some("bank"), emoji |-> None])
        \/ \E id \in PocketIds : delete_pocket(id, u)

NextCrud == (\E u \in Users : CrudRequest(u)) \/ CacheExpire

SpecCrud == InitCommon /\ [][NextCrud]_vars

----------------------------------------------------------------------------
(* SpecTx: the transaction handlers and the cache, one request at a time *)

\* two well-formed requests, an expense with a positive amount, one whose
\* amount does not parse, one of a kind that is neither income nor expense
TxCreateReqs ==
    {TxReq(AmountText(-50), "expense", <<2024, 1, 1>>),
     TxReq(AmountText(20), "income", <<2024, 1, 2>>),
     TxReq(AmountText(50), "expense", <<2024, 1, 1>>),
     TxReq(BadAmountText, "expense", <<2024, 1, 1>>),
     TxReq(AmountText(-50), "gift", <<2024, 1, 1>>)}

TxUpdateReqs ==
    {TxReq(AmountText(-30), "expense", <<2024, 1, 3>>),
     TxReq(AmountText(-30), "expense", BadDateText)}

\* the default list, the first page of one row, and a page that does not exist
TxQueries ==
    {DefaultTxQuery, [DefaultTxQuery EXCEPT !.limit = Some(1)],
     [DefaultTxQuery EXCEPT !.page = Some(0)]}

\* a transaction request issued by caller u
TxRequest(u) ==
    \/ \E query \in TxQueries :
           CacheRoom(TransactionsKey(u, query)) /\ get_transactions(u, query)
    \/ \E req \in TxCreateReqs : create_transaction(u, req)
    \/ \E id \in 1..MaxId, req \in TxUpdateReqs : update_transaction(id, u, req)
    \/ \E id \in 1..MaxId : delete_transaction(id, u)
    \/ \E id \in 1..MaxId : get_transaction_by_id(id, u)

NextTx == (\E u \in Users : TxRequest(u)) \/ CacheExpire

SpecTx == InitCommon /\ [][NextTx]_vars

----------------------------------------------------------------------------
(* C2 *)

\* the body handlers::transaction::get_transactions answers with in the
\* current state: the cache entry under the key when there is one, else the
\* list computed from the store
GetTransactionsBody(u, query) ==
    LET hit == CacheGet(cache, TransactionsKey(u, query))
    IN  IF IsSome(hit) THEN Unwrap(hit) ELSE TxListResponse(u, query)

\* a create_transaction, update_transaction or delete_transaction of caller u
\* that succeeds
TxMutationOk(u) ==
    /\ \/ \E req \in TxCreateReqs : create_transaction(u, req)
       \/ \E id \in 1..MaxId, req \in TxUpdateReqs : update_transaction(id, u, req)
       \/ \E id \in 1..MaxId : delete_transaction(id, u)
    /\ response'.status = "Ok"

\* C2: after a successful create_transaction, update_transaction or
\* delete_transaction by user U, the next request of U to the cached
\* transaction list returns the list computed from the post-mutation store,
\* never a cache entry written before the mutation.
C2_ReadAfterMutationIsFresh ==
    [][\A u \in Users :
          TxMutationOk(u) =>
              \A query \in TxQueries :
                  TxListStatus(query) = "Ok" =>
                      GetTransactionsBody(u, query)' = TxListResponse(u, query)']_vars

----------------------------------------------------------------------------
(* C3 *)

\* a row of the transactions table with this identifier owned by someone
\* other than u
TxOwnedByOther(id, u) == \E t \in transactions : t.id = id /\ t.user_id # u

\* C3: a get-by-id, update or delete of a transaction whose row exists but is
\* owned by a user other than the caller fails with Forbidden, and NotFound is
\* returned only when no row with that identifier exists.
C3_ForeignRowIsForbidden ==
    [][\A u \in Users, id \in 1..MaxId :
          /\ ( /\ TxOwnedByOther(id, u)
               /\ \/ get_transaction_by_id(id, u)
                  \/ delete_transaction(id, u)
                  \/ \E req \in TxUpdateReqs :
                         ValidTransactionRequest(req) /\ TxParseStatus(req) = "Ok"
                         /\ update_transaction(id, u, req) )
             => response'.status = "Forbidden"
          /\ ( /\ TxFindById(id) # {}
               /\ \/ get_transaction_by_id(id, u)
                  \/ delete_transaction(id, u)
                  \/ \E req \in TxUpdateReqs : update_transaction(id, u, req) )
             => response'.status # "NotFound"]_vars

----------------------------------------------------------------------------
(* C4 *)

\* the entities a response carries
ResponseRows(r) ==
    IF r.shape = "page"
    THEN {r.body[1].data[i] : i \in 1..Len(r.body[1].data)}
    ELSE {r.body[i] : i \in 1..Len(r.body)}

\* the rows of a table that u does not own
OwnedByOthers(rows, u) == {row \in rows : row.user_id # u}

\* a step leaves every entity owned by a user other than u unchanged and its
\* response carries no entity owned by a user other than u
IsolatedStep(u) ==
    /\ OwnedByOthers(transactions', u) = OwnedByOthers(transactions, u)
    /\ OwnedByOthers(budgets', u) = OwnedByOthers(budgets, u)
    /\ OwnedByOthers(pockets', u) = OwnedByOthers(pockets, u)
    /\ \A row \in ResponseRows(response') : row.user_id = u

\* C4: after any call authenticated as user A on the transactions, budgets
\* or pockets, failed or successful, every entity owned by another user is
\* unchanged and the response to A contains no entity owned by another user
\* (every step that is a request of u is an isolated step of u).
C4_OwnerIsolation ==
    [][\A u \in Users : IsolatedStep(u) \/ ~CrudRequest(u)]_vars

\* a caller has just been refused a row of another user, while both users own
\* rows
C4_Witness ==
    /\ response.status = "Forbidden"
    /\ \E a \in transactions \cup budgets \cup pockets :
           \E b \in transactions \cup budgets \cup pockets : a.user_id # b.user_id

----------------------------------------------------------------------------
(* Analytics: services/expense_analytics.rs and services/income_analytics.rs. *)
(* The two services differ only in the sign they keep; kind is "expense" or  *)
(* "income". A date-range query is [from_date, to_date], two date texts.     *)

\* LIMIT of get_recent_transactions when the query names none
RecentDefaultLimit == 10

\* a service call writes nothing but its response
ReadOnly ==
    UNCHANGED <<transactions, budgets, pockets, cache, cacheEnabled, users, nextTxId,
                nextBudgetId, nextPocketSeq, inflight>>

\* a filter on the sign that lets an amount of zero through
SignMatchesOrZero(kind, amount) == IF kind = "expense" THEN amount <= 0 ELSE amount >= 0

\* the filter on the sign: amount < 0 for expenses, amount > 0 for income
SignMatches(kind, amount) == IF kind = "expense" THEN amount < 0 ELSE amount > 0

\* PostgresTransactionRepository::find_by_date_range, the session time zone
\* of the database being UTC
TxFindByDateRange(u, from_date, to_date) ==
    {t \in transactions :
        /\ t.user_id = u
        /\ DateAsTimestamp(t.transaction_date) >= from_date
        /\ DateAsTimestamp(t.transaction_date) <= to_date}

\* the rows an analytics call keeps: from 00:00:00 of from_date to 23:59:59 of
\* to_date, of the sign of its kind
FilteredInRange(kind, u, query) ==
    {t \in TxFindByDateRange(u, AndHms(ParseDate(query.from_date), 0, 0, 0),
                             AndHms(ParseDate(query.to_date), 23, 59, 59)) :
        SignMatches(kind, t.amount)}

\* a parse that looks at from_date only
DateRangeStatusOfStart(query) ==
    IF DateValid(query.from_date) THEN "Ok" ELSE "BadRequest"

\* the parse of the two dates: BadRequest when either is rejected
DateRangeStatus(query) ==
    IF DateValid(query.from_date) /\ DateValid(query.to_date) THEN "Ok" ELSE "BadRequest"

\* .map(|t| t.amount.abs()).sum()
RECURSIVE SumAbs(_)
SumAbs(S) ==
    IF S = {} THEN 0
    ELSE LET t == CHOOSE x \in S : TRUE IN Abs(t.amount) + SumAbs(S \ {t})

\* a day count that leaves the last day out
DaysExclusive(query) == ParseDate(query.to_date) - ParseDate(query.from_date)

\* (to_date - from_date).num_days() + 1
DaysInclusive(query) == (ParseDate(query.to_date) - ParseDate(query.from_date)) + 1

\* get_expense_summary / get_income_summary: the response body
SummaryBody(kind, u, query) ==
    LET rows == FilteredInRange(kind, u, query)
        days == DaysInclusive(query)
    IN  [kind |-> kind, total |-> SumAbs(rows), total_transactions |-> Cardinality(rows),
         average_per_day |-> IF days > 0 THEN DecDiv(SumAbs(rows), days) ELSE 0,
         from_date |-> query.from_date, to_date |-> query.to_date]

\* ExpenseAnalyticsService::get_expense_summary and
\* IncomeAnalyticsService::get_income_summary
get_summary(kind, u, query) ==
    /\ response' = IF DateRangeStatus(query) # "Ok" THEN Resp("BadRequest", <<>>)
                   ELSE RespAs("summary", SummaryBody(kind, u, query))
    /\ ReadOnly

\* transaction.category.unwrap_or_else(|| "Uncategorized")
CategoryLabel(t) == IF t.category = NullCategory THEN "Uncategorized" ELSE t.category

\* an item whose percentage is the fraction of the total, not times 100
CategoryItemAsFraction(rows, label) ==
    LET group == {t \in rows : CategoryLabel(t) = label}
    IN  [category |-> label, total_amount |-> SumAbs(group),
         transaction_count |-> Cardinality(group),
         percentage |-> IF SumAbs(rows) > 0
                        THEN DecDiv(SumAbs(group), SumAbs(rows)) ELSE 0]

\* the CategorySummaryItem of one key of the map
CategoryItem(rows, label) ==
    LET group == {t \in rows : CategoryLabel(t) = label}
    IN  [category |-> label, total_amount |-> SumAbs(group),
         transaction_count |-> Cardinality(group),
         percentage |-> IF SumAbs(rows) > 0
                        THEN DecDiv(SumAbs(group), SumAbs(rows)) * 100 ELSE 0]

\* the orders in which a HashMap may yield its entries
IterationOrders(S) ==
    {s \in [1..Cardinality(S) -> S] : \A x \in S : \E i \in DOMAIN s : s[i] = x}

\* a sort by total_amount ascending
SortedByTotalAsc(items) ==
    {s \in IterationOrders(items) :
        \A i \in DOMAIN s, j \in DOMAIN s : i < j => s[i].total_amount <= s[j].total_amount}

\* sort_by total_amount descending: the sort is stable and the map yields its
\* entries in any order, so the result is any order in which no total increases
SortedByTotalDesc(items) ==
    {s \in IterationOrders(items) :
        \A i \in DOMAIN s, j \in DOMAIN s : i < j => s[i].total_amount >= s[j].total_amount}

\* get_category_summary of either service
get_category_summary(kind, u, query) ==
    LET rows == FilteredInRange(kind, u, query)
        items == {CategoryItem(rows, CategoryLabel(t)) : t \in rows}
    IN  /\ IF DateRangeStatus(query) # "Ok"
           THEN response' = Resp("BadRequest", <<>>)
           ELSE \E categories \in SortedByTotalDesc(items) :
                    response' = RespAs("category_summary",
                                       [kind |-> kind, categories |-> categories,
                                        from_date |-> query.from_date,
                                        to_date |-> query.to_date])
        /\ ReadOnly

\* the key of the map of a trend: "%Y-%m" or "%Y-%m-%d"
PeriodLabel(granularity, t) ==
    IF granularity = "monthly" THEN FormatYm(t.transaction_date)
    ELSE FormatYmd(t.transaction_date)

\* an item that carries the total of all rows, not of its period
TrendItemOfAllRows(rows, granularity, period) ==
    LET group == {t \in rows : PeriodLabel(granularity, t) = period}
    IN  [period |-> period, total_amount |-> SumAbs(rows),
         transaction_count |-> Cardinality(group)]

\* the TrendItem of one key of the map
TrendItem(rows, granularity, period) ==
    LET group == {t \in rows : PeriodLabel(granularity, t) = period}
    IN  [period |-> period, total_amount |-> SumAbs(group),
         transaction_count |-> Cardinality(group)]

\* sort_by period ascending: the keys of a map are distinct, the order is unique
SortedByPeriod(items) ==
    CHOOSE s \in IterationOrders(items) :
        \A i \in DOMAIN s, j \in DOMAIN s : i < j => TextLess(s[i].period, s[j].period)

\* get_monthly_trend and get_daily_trend of either service
get_trend(granularity, kind, u, query) ==
    LET rows == FilteredInRange(kind, u, query)
        items == {TrendItem(rows, granularity, PeriodLabel(granularity, t)) : t \in rows}
    IN  /\ response' = IF DateRangeStatus(query) # "Ok" THEN Resp("BadRequest", <<>>)
                       ELSE RespAs("trend",
                                   [kind |-> kind, granularity |-> granularity,
                                    trends |-> SortedByPeriod(items),
                                    from_date |-> query.from_date,
                                    to_date |-> query.to_date])
        /\ ReadOnly

\* get_recent_transactions of either service: the rows of the kind, newest
\* first, cut to the limit by the statement, then filtered by sign
RecentBody(kind, u, limit) ==
    LET n == IF IsSome(limit) THEN Unwrap(limit) ELSE RecentDefaultLimit
        found == TxFindByUserId(u, [page |-> Some(1), limit |-> Some(n),
                                    category |-> None, transaction_type |-> Some(kind)])
        kept == SelectSeq(found, LAMBDA t : SignMatches(kind, t.amount))
        data == [i \in 1..Min(n, Len(kept)) |-> [kept[i] EXCEPT !.amount = Abs(@)]]
    IN  [kind |-> kind, data |-> data, limit |-> n, count |-> Len(data)]

get_recent_transactions(kind, u, limit) ==
    /\ response' = RespAs("recent", RecentBody(kind, u, limit))
    /\ ReadOnly

----------------------------------------------------------------------------
(* SpecAnalytics: analytics calls on a store of at most MaxRows transactions *)

\* the rows a store is drawn from: expenses and income of u1 in three
\* categories and without one, on both sides of a month and of a year, an
\* amount of zero, an expense-typed row with a positive amount, rows of u2
AnalyticsRows ==
    LET Row(id, u, amount, category, type, date) ==
            [id |-> id, user_id |-> u, account_id |-> None, description |-> "d",
             amount |-> amount, category |-> category, transaction_type |-> type,
             transaction_date |-> ParseDate(date), created_at |-> id]
    IN  {Row(1, "u1", -50, "food", "expense", <<2024, 1, 1>>),
         Row(2, "u1", -50, "rent", "expense", <<2024, 1, 31>>),
         Row(3, "u1", -50, "fun", "expense", <<2024, 2, 1>>),
         Row(4, "u1", -30, NullCategory, "expense", <<2025, 1, 1>>),
         Row(5, "u1", 0, "food", "expense", <<2024, 1, 31>>),
         Row(6, "u1", 70, "food", "income", <<2024, 1, 31>>),
         Row(7, "u1", 20, "rent", "expense", <<2024, 2, 1>>),
         Row(8, "u1", 70, NullCategory, "income", <<2024, 2, 1>>),
         Row(9, "u2", -40, "food", "expense", <<2024, 1, 31>>),
         Row(10, "u2", 60, "rent", "income", <<2024, 1, 1>>)}

\* ranges of one day, one month, across a month and a year, ending one day
\* and one month before they start, and with a date that does not parse
DateRanges ==
    {[from_date |-> r[1], to_date |-> r[2]] :
        r \in {<<<<2024, 1, 1>>, <<2024, 1, 31>>>>, <<<<2024, 1, 31>>, <<2024, 1, 31>>>>,
               <<<<2024, 1, 1>>, <<2024, 2, 1>>>>, <<<<2024, 1, 1>>, <<2025, 1, 1>>>>,
               <<<<2024, 2, 1>>, <<2024, 1, 31>>>>, <<<<2024, 2, 1>>, <<2024, 1, 1>>>>,
               <<BadDateText, <<2024, 1, 31>>>>, <<<<2024, 1, 1>>, BadDateText>>}}

RecentLimits == {None, Some(1), Some(2)}

InitAnalytics ==
    /\ transactions \in {S \in SUBSET AnalyticsRows : Cardinality(S) <= MaxRows}
    /\ budgets = {}
    /\ pockets = {}
    /\ cache = EmptyCache
    /\ cacheEnabled = TRUE
    /\ users = RegisteredUsers
    /\ inflight = NoRequests
    /\ nextTxId = 1
    /\ nextBudgetId = 1
    /\ nextPocketSeq = 1
    /\ response = NoResponse

NextAnalytics ==
    \E kind \in {"expense", "income"}, u \in Users :
        \/ \E query \in DateRanges : get_summary(kind, u, query)
        \/ \E query \in DateRanges : get_category_summary(kind, u, query)
        \/ \E query \in DateRanges, granularity \in {"monthly", "daily"} :
               get_trend(granularity, kind, u, query)
        \/ \E limit \in RecentLimits : get_recent_transactions(kind, u, limit)

SpecAnalytics == InitAnalytics /\ [][NextAnalytics]_vars

----------------------------------------------------------------------------
(* C5 - C10: what the analytics calls return *)

\* the query a response echoes
QueryOf(body) == [from_date |-> body.from_date, to_date |-> body.to_date]

\* the step is a call of get_summary, get_category_summary, get_trend or
\* get_recent_transactions by caller u that succeeds
SummaryStep(u) ==
    /\ response'.shape = "summary"
    /\ get_summary(response'.body[1].kind, u, QueryOf(response'.body[1]))

CategoryStep(u) ==
    /\ response'.shape = "category_summary"
    /\ get_category_summary(response'.body[1].kind, u, QueryOf(response'.body[1]))

TrendStep(u) ==
    /\ response'.shape = "trend"
    /\ get_trend(response'.body[1].granularity, response'.body[1].kind, u,
                 QueryOf(response'.body[1]))

RecentStep(u) ==
    /\ response'.shape = "recent"
    /\ get_recent_transactions(response'.body[1].kind, u, Some(response'.body[1].limit))

\* the transactions of u dated from the first to the last day of a query,
\* both included, with amount < 0 (expense) or amount > 0 (income)
RowsInRange(kind, u, query) ==
    {t \in transactions :
        /\ t.user_id = u
        /\ ParseDate(query.from_date) <= t.transaction_date
        /\ t.transaction_date <= ParseDate(query.to_date)
        /\ IF kind = "expense" THEN t.amount < 0 ELSE t.amount > 0}

\* the sum of one field over the items of a list
RECURSIVE SumOver(_, _)
SumOver(items, field) ==
    IF items = <<>> THEN 0 ELSE Head(items)[field] + SumOver(Tail(items), field)

----------------------------------------------------------------------------
(* C5 *)

\* C5: for a range with from_date <= to_date, get_expense_summary and
\* get_income_summary return total = the sum of |amount| over exactly the
\* caller's transactions dated in [from_date, to_date] with amount < 0 (resp.
\* amount > 0), count = their number, and average_per_day = total divided by
\* (to_date - from_date in days) + 1; an amount of 0 is counted by neither.
C5_SummaryOfRange ==
    [][\A u \in Users :
          SummaryStep(u) =>
              LET body == response'.body[1]
                  from == ParseDate(body.from_date)
                  to == ParseDate(body.to_date)
                  rows == RowsInRange(body.kind, u, QueryOf(body))
              IN  from <= to =>
                      /\ body.total = SumAbs(rows)
                      /\ body.total_transactions = Cardinality(rows)
                      /\ body.average_per_day = DecDiv(SumAbs(rows), (to - from) + 1)]_vars

\* an expense summary of two transactions over a store that also holds a
\* transaction of amount zero
C5_Witness ==
    /\ response.shape = "summary"
    /\ response.body[1].kind = "expense"
    /\ response.body[1].total_transactions = 2
    /\ response.body[1].average_per_day > 0
    /\ \E t \in transactions : t.amount = 0 /\ t.user_id = "u1"
    /\ \A t \in transactions : t.user_id = "u1"

----------------------------------------------------------------------------
(* C6 *)

\* C6: for every pair of parseable dates, to_date earlier than from_date
\* included, the day count (to_date - from_date) + 1 is at least 1 and
\* average_per_day equals total divided by it.
C6_DayCountAtLeastOne ==
    [][\A u \in Users :
          SummaryStep(u) =>
              LET body == response'.body[1]
                  days == (ParseDate(body.to_date) - ParseDate(body.from_date)) + 1
              IN  /\ days >= 1
                  /\ body.average_per_day = DecDiv(body.total, days)]_vars

\* C6, amended: when to_date is not earlier than from_date the day count
\* (to_date - from_date) + 1 is at least 1 and average_per_day equals total
\* divided by it; when to_date is earlier than from_date the day count is 0 or
\* negative, no transaction is in range, and total, count and average_per_day
\* are all 0.
C6_DayCountOfRange ==
    [][\A u \in Users :
          SummaryStep(u) =>
              LET body == response'.body[1]
                  days == (ParseDate(body.to_date) - ParseDate(body.from_date)) + 1
              IN  IF ParseDate(body.from_date) <= ParseDate(body.to_date)
                  THEN /\ days >= 1
                       /\ body.average_per_day = DecDiv(body.total, days)
                  ELSE /\ days <= 0
                       /\ body.total = 0
                       /\ body.total_transactions = 0
                       /\ body.average_per_day = 0]_vars

\* a summary of a range that ends before it starts, over a store with
\* expenses of u1
C6_Witness ==
    /\ response.shape = "summary"
    /\ ParseDate(response.body[1].to_date) < ParseDate(response.body[1].from_date)
    /\ \E t \in transactions : t.user_id = "u1" /\ t.amount < 0
    /\ \A t \in transactions : t.user_id = "u1"

----------------------------------------------------------------------------
(* C7 *)

\* C7: in every category summary with at least one group, each percentage
\* equals group total / overall total x 100 and the percentages sum to 100
\* when the overall total is > 0; when it is 0 every percentage is 0.
C7_PercentagesSumTo100 ==
    [][\A u \in Users :
          CategoryStep(u) /\ response'.body[1].categories # <<>> =>
              LET body == response'.body[1]
                  total == SumAbs(RowsInRange(body.kind, u, QueryOf(body)))
              IN  IF total > 0
                  THEN /\ \A i \in DOMAIN body.categories :
                              body.categories[i].percentage =
                                  DecDiv(body.categories[i].total_amount, total) * 100
                       /\ SumOver(body.categories, "percentage") = 100 * DecScale
                  ELSE \A i \in DOMAIN body.categories :
                           body.categories[i].percentage = 0]_vars

\* C7, amended: each percentage equals the quotient group total / overall
\* total, rounded to the digits a Decimal keeps, x 100; the percentages sum to
\* 100 within that rounding (half a unit of the last digit of the quotient,
\* x 100, per group) when the overall total is > 0; when it is 0 every
\* percentage is 0.
C7_PercentagesSumWithinRounding ==
    [][\A u \in Users :
          CategoryStep(u) /\ response'.body[1].categories # <<>> =>
              LET body == response'.body[1]
                  total == SumAbs(RowsInRange(body.kind, u, QueryOf(body)))
                  sum == SumOver(body.categories, "percentage")
              IN  IF total > 0
                  THEN /\ \A i \in DOMAIN body.categories :
                              body.categories[i].percentage =
                                  DecDiv(body.categories[i].total_amount, total) * 100
                       /\ Abs(sum - 100 * DecScale) <= 50 * Len(body.categories)
                  ELSE \A i \in DOMAIN body.categories :
                           body.categories[i].percentage = 0]_vars

\* a category summary of three groups whose percentages do not add up to
\* exactly 100
C7_Witness ==
    /\ response.shape = "category_summary"
    /\ Len(response.body[1].categories) = 3
    /\ SumOver(response.body[1].categories, "percentage") # 100 * DecScale

----------------------------------------------------------------------------
(* C8 *)

\* C8: get_category_summary returns exactly one item per distinct category
\* label among the sign-filtered transactions in range, a transaction without
\* a category counting under "Uncategorized"; each item carries the sum of
\* |amount| and the number of the transactions of its group; the items are in
\* descending order of total_amount.
C8_OneItemPerCategory ==
    [][\A u \in Users :
          CategoryStep(u) =>
              LET body == response'.body[1]
                  items == body.categories
                  rows == RowsInRange(body.kind, u, QueryOf(body))
                  Label(t) == IF t.category = NullCategory THEN "Uncategorized"
                              ELSE t.category
                  Group(label) == {t \in rows : Label(t) = label}
              IN  /\ {items[i].category : i \in DOMAIN items} = {Label(t) : t \in rows}
                  /\ Len(items) = Cardinality({Label(t) : t \in rows})
                  /\ \A i \in DOMAIN items :
                         /\ items[i].total_amount = SumAbs(Group(items[i].category))
                         /\ items[i].transaction_count =
                                Cardinality(Group(items[i].category))
                  /\ \A i \in DOMAIN items, j \in DOMAIN items :
                         i < j => items[i].total_amount >= items[j].total_amount]_vars

\* a category summary of two groups of different totals, the smaller one that
\* of the transactions without a category
C8_Witness ==
    /\ response.shape = "category_summary"
    /\ Len(response.body[1].categories) = 2
    /\ response.body[1].categories[2].category = "Uncategorized"
    /\ response.body[1].categories[1].total_amount >
           response.body[1].categories[2].total_amount
    /\ \E t \in transactions : t.category = NullCategory

----------------------------------------------------------------------------
(* C9 *)

\* the days of a period label: a month <<y, m>> or a day <<y, m, d>>
DaysOfPeriod(period) ==
    IF Len(period) = 2
    THEN DayNumber(period[1], period[2], 1)
             ..DayNumber(period[1], period[2], DaysInMonth(period[1], period[2]))
    ELSE {DayNumber(period[1], period[2], period[3])}

\* C9: get_monthly_trend (resp. get_daily_trend) returns exactly one item per
\* calendar month (resp. day) that contains a sign-filtered transaction in
\* range, each with the sum of |amount| and the count of the transactions of
\* that period, no period repeated, in strictly ascending period order.
C9_OneItemPerPeriod ==
    [][\A u \in Users :
          TrendStep(u) =>
              LET body == response'.body[1]
                  items == body.trends
                  rows == RowsInRange(body.kind, u, QueryOf(body))
                  Group(period) == {t \in rows : t.transaction_date \in DaysOfPeriod(period)}
                  Number(period) == period[1] * 10000 + period[2] * 100
                                    + (IF Len(period) = 3 THEN period[3] ELSE 0)
              IN  /\ \A i \in DOMAIN items :
                         /\ Len(items[i].period) = IF body.granularity = "monthly" THEN 2 ELSE 3
                         /\ Group(items[i].period) # {}
                         /\ items[i].total_amount = SumAbs(Group(items[i].period))
                         /\ items[i].transaction_count = Cardinality(Group(items[i].period))
                  /\ \A t \in rows : \E i \in DOMAIN items : t \in Group(items[i].period)
                  /\ \A i \in DOMAIN items, j \in DOMAIN items :
                         i < j => Number(items[i].period) < Number(items[j].period)]_vars

\* a monthly trend of two months of different years
C9_Witness ==
    /\ response.shape = "trend"
    /\ response.body[1].granularity = "monthly"
    /\ Len(response.body[1].trends) = 2
    /\ response.body[1].trends[1].period[1] < response.body[1].trends[2].period[1]

----------------------------------------------------------------------------
(* C10 *)

\* C10: for every store and limit, get_recent_transactions returns count =
\* length of data, count <= limit, and count = min(limit, M), M being the
\* number of the caller's transactions of the requested kind whose amount has
\* the sign of that kind.
C10_RecentCount ==
    [][\A u \in Users :
          RecentStep(u) =>
              LET body == response'.body[1]
                  M == Cardinality({t \in transactions :
                                       /\ t.user_id = u
                                       /\ t.transaction_type = body.kind
                                       /\ IF body.kind = "expense" THEN t.amount < 0
                                          ELSE t.amount > 0})
              IN  /\ body.count = Len(body.data)
                  /\ body.count <= body.limit
                  /\ body.count = Min(body.limit, M)]_vars

----------------------------------------------------------------------------
(* Budget performance and suggestions: repositories/budget.rs,             *)
(* services/budget.rs, handlers/budget.rs                                  *)

\* format!("budget_performance:{}", id) and format!("budget_suggestions:{}", id)
BudgetReportKey(report, u) == [kind |-> report, user |-> u, q |-> <<>>]

\* a cached read: the cached body on a hit, else the body the service
\* computes, which is then written to the cache
CachedRead(key, shape, body) ==
    LET hit == CacheGet(cache, key)
    IN  /\ IF IsSome(hit)
           THEN /\ response' = RespAs(shape, Unwrap(hit))
                /\ UNCHANGED cache
           ELSE /\ response' = RespAs(shape, body)
                /\ cache' = CacheSet(cache, key, body)
        /\ UNCHANGED <<transactions, budgets, pockets, cacheEnabled, users, nextTxId,
                       nextBudgetId, nextPocketSeq, inflight>>

\* the sum over the joined rows whatever their type
RECURSIVE SpentAmountOfAnyType(_)
SpentAmountOfAnyType(S) ==
    IF S = {} THEN 0
    ELSE LET t == CHOOSE x \in S : TRUE IN t.amount + SpentAmountOfAnyType(S \ {t})

\* COALESCE(SUM(CASE WHEN t.transaction_type = 'expense' THEN t.amount ELSE 0 END), 0)
RECURSIVE SpentAmount(_)
SpentAmount(S) ==
    IF S = {} THEN 0
    ELSE LET t == CHOOSE x \in S : TRUE
         IN  (IF t.transaction_type = "expense" THEN t.amount ELSE 0)
             + SpentAmount(S \ {t})

\* PostgresBudgetRepository::get_budget_performance: the active budgets of
\* the user, newest first, each with its spent amount
BudgetPerformanceRows(u) ==
    LET active == BudgetOrdered({b \in budgets : b.user_id = u /\ b.is_active})
        \* the rows the LEFT JOIN attaches to budget b
        joined(b) == {t \in transactions :
                        /\ t.user_id = b.user_id
                        /\ t.category = b.category
                        /\ t.transaction_date >= b.period_start
                        /\ t.transaction_date <= b.period_end}
    IN  [i \in 1..Len(active) |->
            [budget |-> active[i], spent_amount |-> SpentAmount(joined(active[i]))]]

\* the quotient left as a fraction of one
PercentageUsedAsFraction(spent, target) ==
    IF target > 0
    THEN IF spent < 0 THEN -DecDiv(-spent, target) ELSE DecDiv(spent, target)
    ELSE 0

\* spent / target * 100 as a Decimal (in units of 1/DecScale) when target > 0,
\* else 0; to_f64 takes the nearest double, which keeps the order of the
\* Decimals of the model and the values 50 and 90
PercentageUsed(spent, target) ==
    IF target > 0
    THEN (IF spent < 0 THEN -DecDiv(-spent, target) ELSE DecDiv(spent, target)) * 100
    ELSE 0

\* BudgetService::get_budget_performance
BudgetPerformanceBody(u) ==
    LET rows == BudgetPerformanceRows(u)
        item(r) ==
            [category |-> r.budget.category,
             target_amount |-> r.budget.target_amount,
             spent_amount |-> r.spent_amount,
             remaining_amount |-> r.budget.target_amount - r.spent_amount,
             percentage_used |-> PercentageUsed(r.spent_amount, r.budget.target_amount),
             period_start |-> FormatYmd(r.budget.period_start),
             period_end |-> FormatYmd(r.budget.period_end)]
        items == [i \in 1..Len(rows) |-> item(rows[i])]
        total_target == SumOver(items, "target_amount")
        total_spent == SumOver(items, "spent_amount")
    IN  [budgets |-> items,
         total_target |-> total_target,
         total_spent |-> total_spent,
         total_remaining |-> total_target - total_spent,
         overall_percentage |-> PercentageUsed(total_spent, total_target)]

\* handlers::budget::get_budget_performance
get_budget_performance(u) ==
    CachedRead(BudgetReportKey("budget_performance", u), "budget_performance",
               BudgetPerformanceBody(u))

\* thresholds that take a budget at exactly 90 or exactly 50 percent
SuggestionForInclusive(r) ==
    LET used == PercentageUsed(r.spent_amount, r.budget.target_amount)
        item(factor, reason, confidence) ==
            [category |-> r.budget.category,
             suggested_amount |-> r.budget.target_amount * factor,
             reason |-> reason, confidence |-> confidence]
    IN  IF used >= 90 * DecScale THEN Some(item(120, "increase by 20%", 85))
        ELSE IF used <= 50 * DecScale THEN Some(item(80, "reduce by 20%", 75))
        ELSE None

\* the body of the loop of get_budget_suggestions: the suggestion pushed for
\* one (budget, spent_amount), if any.  Decimal::new(120, 2) and
\* Decimal::new(80, 2) are 1.20 and 0.80: suggested_amount is in hundredths
\* of a minor unit and confidence in hundredths
SuggestionFor(r) ==
    LET used == PercentageUsed(r.spent_amount, r.budget.target_amount)
        item(factor, reason, confidence) ==
            [category |-> r.budget.category,
             suggested_amount |-> r.budget.target_amount * factor,
             reason |-> reason, confidence |-> confidence]
    IN  IF used > 90 * DecScale THEN Some(item(120, "increase by 20%", 85))
        ELSE IF used < 50 * DecScale THEN Some(item(80, "reduce by 20%", 75))
        ELSE None

\* BudgetService::get_budget_suggestions
BudgetSuggestionsBody(u) ==
    LET rows == BudgetPerformanceRows(u)
        from[i \in 1..(Len(rows) + 1)] ==
            IF i > Len(rows) THEN <<>> ELSE SuggestionFor(rows[i]) \o from[i + 1]
    IN  [suggestions |-> from[1]]

\* handlers::budget::get_budget_suggestions
get_budget_suggestions(u) ==
    CachedRead(BudgetReportKey("budget_suggestions", u), "budget_suggestions",
               BudgetSuggestionsBody(u))

----------------------------------------------------------------------------
(* SpecPerformance: the budget reports over a store of budgets and         *)
(* transactions                                                            *)

\* a store of at most MaxId budgets and MaxRows transactions.  The budgets:
\* two active budgets of u1 with targets of 100 and 300, an inactive budget
\* of u1, an active budget of u2, all for January 2024.  The transactions:
\* expenses on the first and the last day of the period and inside it, an
\* income row, a row after the period, a negative amount, a row of u2, a row
\* without a category
InitPerformance ==
    LET Budget(id, u, category, target, active) ==
            [id |-> id, user_id |-> u, category |-> category, target_amount |-> target,
             period_type |-> "monthly", period_start |-> ParseDate(<<2024, 1, 1>>),
             period_end |-> ParseDate(<<2024, 1, 31>>), is_active |-> active,
             created_at |-> id]
        Row(id, u, amount, category, type, date) ==
            [id |-> id, user_id |-> u, account_id |-> None, description |-> "d",
             amount |-> amount, category |-> category, transaction_type |-> type,
             transaction_date |-> ParseDate(date), created_at |-> id]
        PerformanceBudgets ==
            {Budget(1, "u1", "food", 100, TRUE), Budget(2, "u1", "rent", 300, TRUE),
             Budget(3, "u1", "fun", 100, FALSE), Budget(4, "u2", "food", 100, TRUE)}
        PerformanceRows ==
            {Row(1, "u1", 50, "food", "expense", <<2024, 1, 1>>),
             Row(2, "u1", 40, "food", "expense", <<2024, 1, 31>>),
             Row(3, "u1", 45, "food", "expense", <<2024, 1, 2>>),
             Row(4, "u1", 70, "food", "income", <<2024, 1, 2>>),
             Row(5, "u1", 50, "food", "expense", <<2024, 2, 1>>),
             Row(6, "u1", 95, "rent", "expense", <<2024, 1, 2>>),
             Row(7, "u1", -50, "rent", "expense", <<2024, 1, 2>>),
             Row(8, "u2", 50, "food", "expense", <<2024, 1, 1>>),
             Row(9, "u1", 30, NullCategory, "expense", <<2024, 1, 2>>)}
    IN
    /\ transactions \in {S \in SUBSET PerformanceRows : Cardinality(S) <= MaxRows}
    /\ budgets \in {S \in SUBSET PerformanceBudgets : Cardinality(S) <= MaxId}
    /\ pockets = {}
    /\ cache = EmptyCache
    /\ cacheEnabled = TRUE
    /\ users = RegisteredUsers
    /\ inflight = NoRequests
    /\ nextTxId = 1
    /\ nextBudgetId = 1
    /\ nextPocketSeq = 1
    /\ response = NoResponse

NextPerformance ==
    \/ \E u \in Users :
           \/ CacheRoom(BudgetReportKey("budget_performance", u))
              /\ get_budget_performance(u)
           \/ CacheRoom(BudgetReportKey("budget_suggestions", u))
              /\ get_budget_suggestions(u)
    \/ CacheExpire

SpecPerformance == InitPerformance /\ [][NextPerformance]_vars

----------------------------------------------------------------------------
(* C11 - C13: what the budget reports return *)

\* the sum of the amounts of a set of transactions
RECURSIVE AmountSum(_)
AmountSum(S) ==
    IF S = {} THEN 0
    ELSE LET t == CHOOSE x \in S : TRUE IN t.amount + AmountSum(S \ {t})

\* the expense transactions of its owner that a budget covers
ExpensesOfBudget(b) ==
    {t \in transactions :
        /\ t.user_id = b.user_id
        /\ t.transaction_type = "expense"
        /\ t.category = b.category
        /\ b.period_start <= t.transaction_date
        /\ t.transaction_date <= b.period_end}

\* the budgets get_budget_performance reports for caller u
ActiveBudgets(u) == {b \in budgets : b.user_id = u /\ b.is_active}

\* C11: get_budget_performance returns exactly one item per active budget of
\* the caller and none for an inactive budget or a budget of another user;
\* the spent_amount of an item is the sum of the amounts of the caller's
\* expense transactions of the budget's category dated within
\* [period_start, period_end], and 0 when there is none.
C11_OneItemPerActiveBudget ==
    [][\A u \in Users :
          get_budget_performance(u) =>
              LET items == response'.body[1].budgets
              IN  \E order \in IterationOrders(ActiveBudgets(u)) :
                      /\ Len(items) = Len(order)
                      /\ \A i \in DOMAIN order :
                             /\ items[i].category = order[i].category
                             /\ items[i].period_start = FormatYmd(order[i].period_start)
                             /\ items[i].period_end = FormatYmd(order[i].period_end)
                             /\ items[i].spent_amount
                                  = AmountSum(ExpensesOfBudget(order[i]))
                             /\ ExpensesOfBudget(order[i]) = {}
                                  => items[i].spent_amount = 0]_vars

\* a report of one item, spent on the first and on the last day of the period,
\* from a store that also holds a budget and transactions the report leaves out
C11_Witness ==
    /\ response.shape = "budget_performance"
    /\ Len(response.body[1].budgets) = 1
    /\ response.body[1].budgets[1].spent_amount = 90
    /\ Cardinality(budgets) = 2
    /\ Cardinality(transactions) = 3

\* C12: in every get_budget_performance result each item has
\* remaining_amount = target_amount - spent_amount and percentage_used equal
\* to the Decimal quotient spent / target x 100 when target > 0, else 0;
\* total_target and total_spent are the sums over the items, total_remaining
\* is their difference, and overall_percentage follows the same rule on the
\* totals.
C12_PerformanceArithmetic ==
    [][\A u \in Users :
          get_budget_performance(u) =>
              LET body == response'.body[1]
                  IsPercentage(p, spent, target) ==
                      IF target > 0
                      THEN 2 * Abs(p * target - spent * 100 * DecScale) <= 100 * target
                      ELSE p = 0
              IN  /\ \A i \in DOMAIN body.budgets :
                         LET item == body.budgets[i]
                         IN  /\ item.remaining_amount
                                  = item.target_amount - item.spent_amount
                             /\ IsPercentage(item.percentage_used, item.spent_amount,
                                             item.target_amount)
                  /\ body.total_target = SumOver(body.budgets, "target_amount")
                  /\ body.total_spent = SumOver(body.budgets, "spent_amount")
                  /\ body.total_remaining = body.total_target - body.total_spent
                  /\ IsPercentage(body.overall_percentage, body.total_spent,
                                  body.total_target)]_vars

\* a report of two items with spending on both, one of them with a quotient
\* that is rounded
C12_Witness ==
    /\ response.shape = "budget_performance"
    /\ Len(response.body[1].budgets) = 2
    /\ response.body[1].total_remaining = 210
    /\ \E i \in 1..2 :
           LET item == response.body[1].budgets[i]
           IN  item.percentage_used * item.target_amount
                   # item.spent_amount * 100 * DecScale

\* C13: get_budget_suggestions emits at most one suggestion per active budget:
\* suggested_amount = target x 1.20 with confidence 0.85 when percentage_used
\* > 90, suggested_amount = target x 0.80 with confidence 0.75 when
\* percentage_used < 50, and none when 50 <= percentage_used <= 90.  (The
\* active budgets of one user in the stores checked have distinct categories.)
C13_SuggestionThresholds ==
    [][\A u \in Users :
          get_budget_suggestions(u) =>
              LET items == BudgetPerformanceBody(u).budgets
                  suggestions == response'.body[1].suggestions
                  For(item) == {j \in DOMAIN suggestions :
                                   suggestions[j].category = item.category}
              IN  /\ \A j \in DOMAIN suggestions :
                         \E i \in DOMAIN items : j \in For(items[i])
                  /\ \A i \in DOMAIN items :
                         LET used == items[i].percentage_used
                             target == items[i].target_amount
                         IN  /\ Cardinality(For(items[i])) <= 1
                             /\ used > 90 * DecScale =>
                                    \E j \in For(items[i]) :
                                        /\ suggestions[j].suggested_amount * 100
                                             = target * 120 * 100
                                        /\ suggestions[j].confidence = 85
                             /\ used < 50 * DecScale =>
                                    \E j \in For(items[i]) :
                                        /\ suggestions[j].suggested_amount * 100
                                             = target * 80 * 100
                                        /\ suggestions[j].confidence = 75
                             /\ (50 * DecScale <= used /\ used <= 90 * DecScale) =>
                                    For(items[i]) = {}]_vars

\* an answer that proposes a reduction for a budget used below 50 percent and
\* leaves out a budget of the same caller used at exactly 90 percent
C13_Witness ==
    /\ response.shape = "budget_suggestions"
    /\ LET suggestions == response.body[1].suggestions
           items == BudgetPerformanceBody("u1").budgets
       IN  /\ Len(suggestions) = 1
           /\ suggestions[1].category = "rent"
           /\ suggestions[1].confidence = 75
           /\ Len(items) = 2
           /\ \E i \in DOMAIN items : items[i].percentage_used = 90 * DecScale

----------------------------------------------------------------------------
(* SpecCache: the cached reads and the mutations that delete their keys,   *)
(* with the cache enabled or not, one request at a time                    *)

\* one active budget of u1 is stored; the cache is enabled or disabled for
\* the whole run
InitCache ==
    /\ transactions = {}
    /\ budgets = {[id |-> 1, user_id |-> "u1", category |-> "food", target_amount |-> 100,
                   period_type |-> "monthly", period_start |-> ParseDate(<<2024, 1, 1>>),
                   period_end |-> ParseDate(<<2024, 1, 31>>), is_active |-> TRUE,
                   created_at |-> 1]}
    /\ pockets = {}
    /\ cache = EmptyCache
    /\ cacheEnabled \in BOOLEAN
    /\ users = RegisteredUsers
    /\ inflight = NoRequests
    /\ nextTxId = 1
    /\ nextBudgetId = 2
    /\ nextPocketSeq = 1
    /\ response = NoResponse

NextCache ==
    \/ \E u \in Users :
           \/ CacheRoom(user_pockets_cache_key(u)) /\ get_pockets(u)
           \/ /\ Cardinality(pockets) < MaxTableRows
              /\ \E req \in {[name |-> "cash", emoji |-> "e"], [name |-> "", emoji |-> "e"]} :
                     create_pocket("p1", u, req)
           \/ update_pocket("p1", u, [name |-> Some("bank"), emoji |-> None])
           \/ delete_pocket("p1", u)
           \/ CacheRoom(user_cache_key(u)) /\ get_me(u)
           \/ \E name \in {"m", ""} : update_name(u, name)
           \/ update_hide_balance(u, TRUE)
           \/ CacheRoom(BudgetReportKey("budget_performance", u))
              /\ get_budget_performance(u)
           \/ /\ Cardinality(transactions) < MaxTableRows
              /\ create_transaction(u, TxReq(AmountText(95), "expense", <<2024, 1, 2>>))
    \/ CacheExpire

SpecCache == InitCache /\ [][NextCache]_vars

----------------------------------------------------------------------------
(* C14 - C16: the cache protocol of the handlers *)

\* the step is a pocket mutation, or a user mutation, requested by u
PocketMutation(u) ==
    \/ \E req \in {[name |-> "cash", emoji |-> "e"], [name |-> "", emoji |-> "e"]} :
           create_pocket("p1", u, req)
    \/ update_pocket("p1", u, [name |-> Some("bank"), emoji |-> None])
    \/ delete_pocket("p1", u)

UserMutation(u) ==
    \/ \E name \in {"m", ""} : update_name(u, name)
    \/ update_hide_balance(u, TRUE)

\* C14: with the cache disabled (or every cache call failing, which the
\* CacheService answers the same way), a cached read handler answers exactly
\* what its service call returns, a mutation handler answers the outcome of
\* its service call and never an error of the cache, and no request changes
\* the cache: a failed get is a miss, a failed set or delete a no-op.
C14_CacheFailureIsTransparent ==
    [][~cacheEnabled =>
          /\ cache' = cache
          /\ \A u \in Users :
                 /\ get_pockets(u) => response' = Resp("Ok", PocketFindByUserId(u))
                 /\ get_me(u) => response' = UserResponse(u)
                 /\ get_budget_performance(u) =>
                        response' = RespAs("budget_performance", BudgetPerformanceBody(u))
                 /\ PocketMutation(u) =>
                        /\ response'.status \in {"Ok", "ValidationError", "NotFound",
                                                 "Forbidden"}
                        /\ response'.status # "Ok" => pockets' = pockets
                 /\ UserMutation(u) =>
                        /\ response'.status \in {"Ok", "ValidationError", "NotFound"}
                        /\ response'.status = "Ok" =>
                               response'.body = <<CHOOSE r \in users' : r.id = u>>]_vars

\* with the cache disabled, a report computed from a store that holds an
\* expense, and a pocket list read after a pocket was created
C14_Witness ==
    /\ ~cacheEnabled
    /\ \/ /\ response.shape = "budget_performance"
          /\ response.body[1].total_spent = 95
          /\ pockets # {}
       \/ /\ response.status = "Ok"
          /\ response.body # <<>>
          /\ response.body = PocketFindByUserId("u2")
          /\ transactions # {}

NextGetPockets(u) ==
    IF cacheEnabled /\ user_pockets_cache_key(u) \in DOMAIN cache
    THEN cache[user_pockets_cache_key(u)] ELSE PocketFindByUserId(u)

NextGetMe(u) ==
    IF cacheEnabled /\ user_cache_key(u) \in DOMAIN cache
    THEN cache[user_cache_key(u)] ELSE UserResponse(u).body

\* C16: with the cache enabled and one request at a time, after a successful
\* create_pocket, update_pocket or delete_pocket of u the cache holds no
\* entry under user:{u}:pockets and the next get_pockets of u returns the
\* pockets stored; after a successful update_name or update_hide_balance of u
\* it holds no entry under user:{u} and the next get_me of u returns the user
\* stored; a mutation that fails deletes no cache entry.
C16_MutationInvalidatesOwnKey ==
    [][cacheEnabled =>
          \A u \in Users :
              /\ PocketMutation(u) =>
                     IF response'.status = "Ok"
                     THEN /\ user_pockets_cache_key(u) \notin DOMAIN cache'
                          /\ NextGetPockets(u)' = PocketFindByUserId(u)'
                     ELSE cache' = cache
              /\ UserMutation(u) =>
                     IF response'.status = "Ok"
                     THEN /\ user_cache_key(u) \notin DOMAIN cache'
                          /\ NextGetMe(u)' = UserResponse(u)'.body
                     ELSE cache' = cache]_vars

\* a pocket has just been renamed while another key of the cache is in use
C16_Witness ==
    /\ cacheEnabled
    /\ response.status = "Ok"
    /\ Len(response.body) = 1
    /\ response.body[1] \in pockets
    /\ response.body[1].name = "bank"
    /\ cache # EmptyCache

----------------------------------------------------------------------------
(* C17 *)

\* the category lists a call of get_category_summary may return from the
\* current store
CategoryOutcomes(kind, u, query) ==
    LET rows == FilteredInRange(kind, u, query)
    IN  SortedByTotalDesc({CategoryItem(rows, CategoryLabel(t)) : t \in rows})

\* C17: two invocations of the same analytics operation (summary, category
\* summary, monthly trend, daily trend) with the same user, date range and
\* stored transactions return identical outputs, including the order of the
\* list items whose totals are equal: whatever a call returns is the only
\* output the call can return from that store.
C17_AnalyticsDeterministic ==
    [][\A u \in Users :
          /\ SummaryStep(u) =>
                 response'.body[1]
                     = SummaryBody(response'.body[1].kind, u, QueryOf(response'.body[1]))
          /\ TrendStep(u) =>
                 response'.body[1].trends
                     = SortedByPeriod(
                           {TrendItem(FilteredInRange(response'.body[1].kind, u,
                                                      QueryOf(response'.body[1])),
                                      response'.body[1].granularity,
                                      PeriodLabel(response'.body[1].granularity, t)) :
                               t \in FilteredInRange(response'.body[1].kind, u,
                                                     QueryOf(response'.body[1]))})
          /\ CategoryStep(u) =>
                 \A other \in CategoryOutcomes(response'.body[1].kind, u,
                                               QueryOf(response'.body[1])) :
                     other = response'.body[1].categories]_vars

----------------------------------------------------------------------------
(* C18 *)

\* C18: for each date-range analytics operation (summary, category summary,
\* monthly trend, daily trend; expense and income), a from_date or a to_date
\* that is not a calendar date in YYYY-MM-DD form makes the call fail with
\* BadRequest: a call that succeeds echoes two dates that parse, and a call
\* that fails answers BadRequest with nothing read from the repository and
\* nothing written.
C18_BadDateIsBadRequest ==
    [][\/ /\ response'.status = "BadRequest"
          /\ response'.body = <<>>
          /\ UNCHANGED <<transactions, cache>>
       \/ /\ response'.status = "Ok"
          /\ \/ response'.shape = "recent"
             \/ /\ DateValid(response'.body[1].from_date)
                /\ DateValid(response'.body[1].to_date)
             \/ \A u \in Users :
                    ~SummaryStep(u) /\ ~CategoryStep(u) /\ ~TrendStep(u)]_vars

\* a call has been refused while the store holds rows of the caller's range
C18_Witness ==
    /\ response.status = "BadRequest"
    /\ \E t \in transactions : t.user_id = "u1" /\ t.transaction_date = ParseDate(<<2024, 1, 1>>)

----------------------------------------------------------------------------
(* SpecUpdate: the three update handlers over a store of rows of both users *)

\* the update bodies of a pocket: each field absent, present, or empty
PocketUpdateReqs ==
    {[name |-> n, emoji |-> e] : n \in {None, Some("bank"), Some("")},
                                 e \in {None, Some("x")}}

\* a budget and a transaction of u1, a pocket of each user
InitUpdate ==
    /\ transactions = {[id |-> 1, user_id |-> "u1", account_id |-> Some("p1"),
                        description |-> "old", amount |-> 70, category |-> "rent",
                        transaction_type |-> "income",
                        transaction_date |-> ParseDate(<<2024, 1, 31>>), created_at |-> 1]}
    /\ budgets = {[id |-> 1, user_id |-> "u1", category |-> "food", target_amount |-> 50,
                   period_type |-> "weekly", period_start |-> ParseDate(<<2024, 1, 1>>),
                   period_end |-> ParseDate(<<2024, 1, 31>>), is_active |-> TRUE,
                   created_at |-> 1]}
    /\ pockets = {[id |-> "p1", user_id |-> "u1", name |-> "cash", emoji |-> "e",
                   balance |-> 0, created_at |-> 1],
                  [id |-> "p2", user_id |-> "u2", name |-> "cash", emoji |-> "e",
                   balance |-> 0, created_at |-> 2]}
    /\ cache = EmptyCache
    /\ cacheEnabled = TRUE
    /\ users = RegisteredUsers
    /\ inflight = NoRequests
    /\ nextTxId = 2
    /\ nextBudgetId = 2
    /\ nextPocketSeq = 3
    /\ response = NoResponse

NextUpdate ==
    \E u \in Users :
        \/ \E id \in 1..MaxId, req \in BudgetUpdateReqs : update_budget(id, u, req)
        \/ \E id \in PocketIds, req \in PocketUpdateReqs : update_pocket(id, u, req)
        \/ \E id \in 1..MaxId, req \in TxUpdateReqs : update_transaction(id, u, req)

SpecUpdate == InitUpdate /\ [][NextUpdate]_vars

----------------------------------------------------------------------------
(* C19 *)

\* field f of the new row is the value the request carries when it carries
\* one, else the value of the old row
Replaced(old, new, req, f) ==
    new[f] = IF IsSome(req[f]) THEN Unwrap(req[f]) ELSE old[f]

\* C19: update_budget changes exactly the fields present in the request and
\* leaves every absent field with its previous value, and a request with no
\* field returns the stored budget unchanged; update_pocket does the same for
\* name and emoji; update_transaction replaces all of account_id,
\* description, amount, category, kind and date; no update changes the id,
\* the owner or created_at of the row, nor any other row of any table, and an
\* update that fails changes nothing.
C19_UpdateFrame ==
    [][\A u \in Users :
          /\ \A id \in 1..MaxId, req \in BudgetUpdateReqs :
                 update_budget(id, u, req) =>
                     /\ UNCHANGED <<transactions, pockets, users>>
                     /\ IF response'.status # "Ok" THEN budgets' = budgets
                        ELSE LET old == CHOOSE b \in budgets : b.id = id
                                 new == response'.body[1]
                             IN  /\ budgets' = (budgets \ {old}) \cup {new}
                                 /\ \A f \in {"category", "target_amount", "period_type",
                                              "is_active"} : Replaced(old, new, req, f)
                                 /\ \A f \in {"period_start", "period_end"} :
                                        IF IsSome(req[f])
                                        THEN FormatYmd(new[f]) = Unwrap(req[f])
                                        ELSE new[f] = old[f]
                                 /\ \A f \in {"id", "user_id", "created_at"} : new[f] = old[f]
                                 /\ (\A f \in DOMAIN req : req[f] = None) => new = old
          /\ \A id \in PocketIds, req \in PocketUpdateReqs :
                 update_pocket(id, u, req) =>
                     /\ UNCHANGED <<transactions, budgets, users>>
                     /\ IF response'.status # "Ok" THEN pockets' = pockets
                        ELSE LET old == CHOOSE p \in pockets : p.id = id
                                 new == response'.body[1]
                             IN  /\ pockets' = (pockets \ {old}) \cup {new}
                                 /\ \A f \in {"name", "emoji"} : Replaced(old, new, req, f)
                                 /\ \A f \in {"id", "user_id", "created_at", "balance"} :
                                        new[f] = old[f]
          /\ \A id \in 1..MaxId, req \in TxUpdateReqs :
                 update_transaction(id, u, req) =>
                     /\ UNCHANGED <<budgets, pockets, users>>
                     /\ IF response'.status # "Ok" THEN transactions' = transactions
                        ELSE LET old == CHOOSE t \in transactions : t.id = id
                                 new == response'.body[1]
                             IN  /\ transactions' = (transactions \ {old}) \cup {new}
                                 /\ \A f \in {"account_id", "description", "category",
                                              "transaction_type"} : new[f] = req[f]
                                 /\ new.amount = req.amount.value
                                 /\ FormatYmd(new.transaction_date) = req.transaction_date
                                 /\ \A f \in {"id", "user_id", "created_at"} : new[f] = old[f]]_vars

\* the budget has been given a new category by one update and switched off
\* by another, its other fields being those it was stored with; the pocket
\* of the other user and the transaction are as stored
C19_Witness ==
    /\ response.status = "Ok"
    /\ response.body[1] \in budgets
    /\ response.body[1].category = "rent"
    /\ ~response.body[1].is_active
    /\ response.body[1].target_amount = 50
    /\ response.body[1].period_type = "weekly"
    /\ \E p \in pockets : p.id = "p1" /\ p.name = "bank" /\ p.emoji = "e"
    /\ \E t \in transactions : t.description = "d" /\ t.created_at = 1

----------------------------------------------------------------------------
(* C20 *)

\* a request create_budget rejects for no reason but its period: it is valid,
\* its dates are calendar dates in order, and an active budget of the caller
\* in the same category shares a day with it
OverlappingCreate(u, req) ==
    /\ ValidCreateBudget(req)
    /\ DateValid(req.period_start) /\ DateValid(req.period_end)
    /\ ParseDate(req.period_end) > ParseDate(req.period_start)
    /\ \E b \in budgets :
           BudgetOverlaps(b, u, req.category,
                          ParseDate(req.period_start), ParseDate(req.period_end))

\* C20: create_budget for a period that overlaps an existing active budget
\* of the same user and category fails with a Conflict error and leaves the
\* store unchanged.
C20_OverlapIsConflict ==
    [][\A u \in Users, req \in BudgetCreateReqs :
          (OverlappingCreate(u, req) /\ create_budget(u, req)) =>
              /\ response'.status = "Conflict"
              /\ budgets' = budgets]_vars

----------------------------------------------------------------------------
(* C21 *)

\* C21: every stored transaction's kind agrees with the sign of its amount:
\* an expense has a negative amount and an income a positive one.
C21_KindAgreesWithSign ==
    \A t \in transactions :
        /\ t.transaction_type = "expense" => t.amount < 0
        /\ t.transaction_type = "income" => t.amount > 0

----------------------------------------------------------------------------
(* C22 *)

\* C22: every stored budget has period_end strictly after period_start.
C22_PeriodEndAfterStart ==
    \A b \in budgets : b.period_end > b.period_start

----------------------------------------------------------------------------
(* C23 *)

\* this step is a create_budget, update_budget or delete_budget of caller u
\* that succeeded
BudgetMutationOk(u) ==
    /\ response'.status = "Ok"
    /\ \/ \E req \in BudgetCreateReqs : create_budget(u, req)
       \/ \E id \in 1..MaxId, req \in BudgetUpdateReqs : update_budget(id, u, req)
       \/ \E id \in 1..MaxId : delete_budget(id, u)

\* the entries stored under budget-list keys of user u are still there,
\* with their values
BudgetListEntriesKept(u) ==
    \A key \in DOMAIN cache :
        (key.kind = "budgets" /\ key.user = u) =>
            key \in DOMAIN cache' /\ cache'[key] = cache[key]

\* C23: after a successful create_budget, update_budget or delete_budget by
\* user U, every cache entry previously stored under a budget-list key of U
\* is still present with its old value: the delete of the literal key
\* budgets:{U}:* removes none of them.
C23_WildcardDeleteKeepsLists ==
    [][\A u \in Users : BudgetListEntriesKept(u) \/ ~BudgetMutationOk(u)]_vars

\* the list of u1 was cached when u1 had no budget, u1 has then created
\* one, and the cached list is still the empty one
C23_Witness ==
    /\ response.status = "Ok"
    /\ response.shape = "rows"
    /\ Len(response.body) = 1
    /\ response.body[1] \in budgets
    /\ response.body[1].user_id = "u1"
    /\ BudgetsKey("u1", DefaultBudgetQuery) \in DOMAIN cache
    /\ cache[BudgetsKey("u1", DefaultBudgetQuery)].data = <<>>

----------------------------------------------------------------------------
(* SpecInterleaved: requests served concurrently, each await of a handler   *)
(* being a step of its own                                                  *)

\* the slot serves nothing again
Returned(s) == [inflight EXCEPT ![s] = [pc |-> "idle"]]

\* create_budget up to the overlap query of PostgresBudgetRepository::create:
\* the request returns with its error, or goes on to the INSERT
create_budget_check(s, u, req) ==
    LET status == IF ~ValidCreateBudget(req) THEN "ValidationError"
                  ELSE BudgetCreateStatus(u, req)
    IN  /\ inflight[s].pc = "idle"
        /\ IF status = "Ok"
           THEN /\ inflight' = [inflight EXCEPT
                                  ![s] = [pc |-> "insert", user |-> u, req |-> req]]
                /\ UNCHANGED response
           ELSE /\ response' = Resp(status, <<>>)
                /\ UNCHANGED inflight
        /\ UNCHANGED <<transactions, budgets, pockets, cache, cacheEnabled, users,
                       nextTxId, nextBudgetId, nextPocketSeq>>

\* an INSERT that looks for an overlapping budget again
BudgetInsertUnlessOverlap(u, req) ==
    IF \E b \in budgets :
           BudgetOverlaps(b, u, req.category,
                          ParseDate(req.period_start), ParseDate(req.period_end))
    THEN budgets
    ELSE budgets \cup {BudgetNewRow(u, req)}

\* INSERT INTO budgets .. RETURNING ..: the table after the statement
BudgetInsert(u, req) == budgets \cup {BudgetNewRow(u, req)}

\* the rest of create_budget: the INSERT, then the handler's cache delete and
\* its answer
create_budget_insert(s) ==
    /\ inflight[s].pc = "insert"
    /\ nextBudgetId <= MaxId
    /\ budgets' = BudgetInsert(inflight[s].user, inflight[s].req)
    /\ nextBudgetId' = nextBudgetId + 1
    /\ cache' = CacheDelete(cache, BudgetsWildcardKey(inflight[s].user))
    /\ response' = Resp("Ok", <<BudgetNewRow(inflight[s].user, inflight[s].req)>>)
    /\ inflight' = Returned(s)
    /\ UNCHANGED <<transactions, pockets, cacheEnabled, users, nextTxId, nextPocketSeq>>

NextInterleaved ==
    \E s \in Slots :
        \/ \E u \in Users, req \in BudgetCreateReqs : create_budget_check(s, u, req)
        \/ create_budget_insert(s)

SpecInterleaved == InitCommon /\ [][NextInterleaved]_vars

----------------------------------------------------------------------------
(* C24 *)

\* C24: when the overlap checks of two create_budget requests for the same
\* user, the same category and overlapping periods have both run before
\* either insert, both requests succeed: the insert of a checked request
\* answers Ok and stores its row whatever the table holds by then, and when
\* the table already holds an active budget overlapping it, the store then
\* holds two overlapping active budgets of that user and category.
C24_CheckThenInsertIsNotAtomic ==
    [][\A s \in Slots :
          create_budget_insert(s) =>
              LET u == inflight[s].user
                  req == inflight[s].req
              IN  /\ response'.status = "Ok"
                  /\ response'.body[1] \in budgets' \ budgets
                  /\ (\E b \in budgets :
                          BudgetOverlaps(b, u, req.category, ParseDate(req.period_start),
                                         ParseDate(req.period_end)))
                         => \E a, b \in budgets' :
                                /\ OverlappingActivePair(a, b)
                                /\ a.user_id = u /\ a.category = req.category]_vars

\* both requests have answered Ok and the store holds two active budgets of
\* u1 for food whose periods overlap
C24_Witness ==
    /\ response.status = "Ok"
    /\ \A s \in Slots : inflight[s].pc = "idle"
    /\ \E a, b \in budgets :
           /\ OverlappingActivePair(a, b)
           /\ a.user_id = "u1" /\ a.category = "food"
           /\ response.body = <<b>>

----------------------------------------------------------------------------
(* SpecPocketsInterleaved: get_pockets and the pocket mutations served      *)
(* concurrently; the store read, the store write, the cache get, the cache  *)
(* set and the cache delete are steps of their own                          *)

\* get_pockets: cache_service.get; a hit is answered at once
pockets_cache_get(s, u) ==
    LET hit == CacheGet(cache, user_pockets_cache_key(u))
    IN  /\ inflight[s].pc = "idle"
        /\ IF IsSome(hit)
           THEN /\ response' = Resp("Ok", Unwrap(hit))
                /\ UNCHANGED inflight
           ELSE /\ inflight' = [inflight EXCEPT ![s] = [pc |-> "read", user |-> u]]
                /\ UNCHANGED response
        /\ UNCHANGED <<transactions, budgets, pockets, cache, cacheEnabled, users,
                       nextTxId, nextBudgetId, nextPocketSeq>>

\* get_pockets: pocket_service.get_user_pockets
pockets_store_read(s) ==
    /\ inflight[s].pc = "read"
    /\ inflight' = [inflight EXCEPT
                      ![s] = [pc |-> "set", user |-> inflight[s].user,
                              answer |-> Resp("Ok", PocketFindByUserId(inflight[s].user))]]
    /\ UNCHANGED <<transactions, budgets, pockets, cache, cacheEnabled, users,
                   nextTxId, nextBudgetId, nextPocketSeq, response>>

\* get_pockets: cache_service.set of the list read, and the answer
pockets_cache_set(s) ==
    /\ inflight[s].pc = "set"
    /\ cache' = CacheSet(cache, user_pockets_cache_key(inflight[s].user),
                         inflight[s].answer.body)
    /\ response' = inflight[s].answer
    /\ inflight' = Returned(s)
    /\ UNCHANGED <<transactions, budgets, pockets, cacheEnabled, users, nextTxId,
                   nextBudgetId, nextPocketSeq>>

\* create_pocket, update_pocket and delete_pocket up to the end of their
\* service call: a failure is answered at once, a success goes on to the
\* cache delete
pocket_store_write(s, op, id, u, req) ==
    LET status == CASE op = "create" ->
                         IF ValidCreatePocket(req) THEN "Ok" ELSE "ValidationError"
                    [] op = "update" ->
                         IF ~ValidUpdatePocket(req) THEN "ValidationError"
                         ELSE PocketUpdateStatus(id, u)
                    [] op = "delete" ->
                         IF PocketDeleteRows(id, u) # {} THEN "Ok" ELSE "NotFound"
        old == CHOOSE p \in PocketFindById(id) : TRUE
        new == IF op = "create" THEN PocketNewRow(id, u, req)
               ELSE PocketUpdatedRow(old, req)
    IN  /\ inflight[s].pc = "idle"
        /\ op = "create" => PocketFindById(id) = {} /\ nextPocketSeq <= MaxId
        /\ IF status = "Ok"
           THEN /\ pockets' = CASE op = "create" -> pockets \cup {new}
                                [] op = "update" -> (pockets \ {old}) \cup {new}
                                [] op = "delete" -> pockets \ PocketDeleteRows(id, u)
                /\ nextPocketSeq' = IF op = "create" THEN nextPocketSeq + 1
                                    ELSE nextPocketSeq
                /\ inflight' = [inflight EXCEPT
                                  ![s] = [pc |-> "invalidate", user |-> u,
                                          answer |-> Resp("Ok", IF op = "delete" THEN <<>>
                                                                ELSE <<new>>)]]
                /\ UNCHANGED response
           ELSE /\ response' = Resp(status, <<>>)
                /\ UNCHANGED <<pockets, nextPocketSeq, inflight>>
        /\ UNCHANGED <<transactions, budgets, cache, cacheEnabled, users, nextTxId,
                       nextBudgetId>>

\* the rest of a pocket mutation: cache_service.delete, and the answer
pocket_cache_delete(s) ==
    /\ inflight[s].pc = "invalidate"
    /\ cache' = CacheDelete(cache, user_pockets_cache_key(inflight[s].user))
    /\ response' = inflight[s].answer
    /\ inflight' = Returned(s)
    /\ UNCHANGED <<transactions, budgets, pockets, cacheEnabled, users, nextTxId,
                   nextBudgetId, nextPocketSeq>>

NextPocketsInterleaved ==
    \E s \in Slots :
        \/ \E u \in Users : pockets_cache_get(s, u)
        \/ pockets_store_read(s)
        \/ pockets_cache_set(s)
        \/ \E u \in Users, id \in PocketIds :
               \/ pocket_store_write(s, "create", id, u, [name |-> "cash", emoji |-> "e"])
               \/ \E name \in {Some("bank"), Some("")} :
                      pocket_store_write(s, "update", id, u, [name |-> name, emoji |-> None])
               \/ pocket_store_write(s, "delete", id, u, [name |-> None, emoji |-> None])
        \/ pocket_cache_delete(s)

SpecPocketsInterleaved == InitCommon /\ [][NextPocketsInterleaved]_vars

----------------------------------------------------------------------------
(* C25 *)

\* C25: once every pocket mutation of a user has returned, a get_pockets
\* request of that user that starts afterwards returns the pocket list the
\* store holds: here for the request that is answered by its first step,
\* from the cache.
C25_ReadAfterReturnedMutationIsFresh ==
    [][\A s \in Slots, u \in Users :
          \/ response'.body = PocketFindByUserId(u)
          \/ \E o \in Slots : inflight[o].pc = "invalidate" /\ inflight[o].user = u
          \/ ~IsSome(CacheGet(cache, user_pockets_cache_key(u)))
          \/ ~pockets_cache_get(s, u)]_vars

----------------------------------------------------------------------------
(* Summaries: services/account_summary.rs, handlers/account_summary.rs,     *)
(* BudgetService::get_budget_summary                                        *)

\* AccountSummaryService::get_account_summary; a Decimal printed by
\* to_string is kept as its value
AccountSummaryBody(u) ==
    LET found == PocketFindByUserId(u)
        rows == TxFindByUserId(u, DefaultTxQuery)
        IsIncome(t) == t.transaction_type = "income"
        IsExpense(t) == t.transaction_type = "expense"
    IN  [total_balance |-> SumOver(found, "balance"),
         accounts |-> [i \in 1..Len(found) |->
                         [id |-> found[i].id, name |-> found[i].name,
                          balance |-> found[i].balance, account_type |-> "pocket"]],
         total_income |-> SumOver(SelectSeq(rows, IsIncome), "amount"),
         total_expenses |-> SumOver(SelectSeq(rows, IsExpense), "amount"),
         net_worth |-> SumOver(found, "balance")]

\* handlers::account_summary::get_account_summary
get_account_summary(u) ==
    CachedRead(BudgetReportKey("account_summary", u), "account_summary",
               AccountSummaryBody(u))

\* BudgetService::get_budget_summary; categories is SELECT DISTINCT category
BudgetSummaryBody(u) ==
    LET active == [DefaultBudgetQuery EXCEPT !.is_active = Some(TRUE)]
    IN  [total_budgets |->
             Cardinality({b \in budgets : BudgetMatches(b, u, DefaultBudgetQuery)}),
         active_budgets |-> Cardinality({b \in budgets : BudgetMatches(b, u, active)}),
         total_target_amount |-> SumOver(BudgetFindByUserId(u, active), "target_amount"),
         categories |-> {b.category : b \in {x \in budgets : x.user_id = u}}]

\* handlers::budget::get_budget_summary
get_budget_summary(u) ==
    CachedRead(BudgetReportKey("budget_summary", u), "budget_summary",
               BudgetSummaryBody(u))

----------------------------------------------------------------------------
(* SpecSummary: the two summaries over stores of no row, one row, and of   *)
(* about DefaultLimit rows of one user, with the pocket and transaction    *)
(* mutations                                                                *)

\* largest number of transactions, and of budgets, of the user
MaxSummaryRows == 21

InitSummary ==
    \E n \in {0, 1, DefaultLimit - 1, DefaultLimit, MaxSummaryRows} :
        /\ transactions =
             {[id |-> i, user_id |-> "u1", account_id |-> None, description |-> "d",
               amount |-> IF i % 2 = 1 THEN 10 ELSE -10, category |-> "food",
               transaction_type |-> IF i % 2 = 1 THEN "income" ELSE "expense",
               transaction_date |-> i - 1, created_at |-> i] : i \in 1..n}
        /\ budgets =
             {[id |-> i, user_id |-> "u1", category |-> "food", target_amount |-> 100,
               period_type |-> "weekly", period_start |-> 10 * i,
               period_end |-> 10 * i + 6, is_active |-> TRUE, created_at |-> i] :
                  i \in 1..n}
        /\ nextTxId = n + 1
        /\ nextBudgetId = n + 1
        /\ pockets = {}
        /\ cache = EmptyCache
        /\ cacheEnabled = TRUE
        /\ users = RegisteredUsers
        /\ inflight = NoRequests
        /\ nextPocketSeq = 1
        /\ response = NoResponse

NextSummary ==
    \/ \E u \in Users :
           \/ CacheRoom(BudgetReportKey("account_summary", u)) /\ get_account_summary(u)
           \/ CacheRoom(BudgetReportKey("budget_summary", u)) /\ get_budget_summary(u)
           \/ \E id \in PocketIds : create_pocket(id, u, [name |-> "cash", emoji |-> "e"])
           \/ \E id \in PocketIds :
                  update_pocket(id, u, [name |-> Some("bank"), emoji |-> None])
    \/ LET req == [TxReq(AmountText(-30), "expense", <<2024, 1, 3>>)
                     EXCEPT !.account_id = Some("p1")]
       IN  \/ create_transaction("u1", req)
           \/ \E id \in 1..MaxId : update_transaction(id, "u1", req)
           \/ \E id \in 1..MaxId : delete_transaction(id, "u1")
    \/ CacheExpire

SpecSummary == InitSummary /\ [][NextSummary]_vars

----------------------------------------------------------------------------
(* C26 *)

\* C26: the aggregate summaries cover all of the caller's rows however many
\* there are: a get_account_summary computed from the store has
\* total_income and total_expenses equal to the sums of amount over all of
\* the caller's income and expense transactions, and a get_budget_summary
\* computed from the store has total_target_amount equal to the sum of
\* target_amount over all of the caller's active budgets, the budgets that
\* active_budgets counts.
C26_SummariesCoverAllRows ==
    [][\A u \in Users :
          LET key(report) == BudgetReportKey(report, u)
              own(kind) == {t \in transactions :
                               t.user_id = u /\ t.transaction_type = kind}
              active == {b \in budgets : b.user_id = u /\ b.is_active}
              body == response'.body[1]
          IN  /\ (key("account_summary") \notin DOMAIN cache /\ get_account_summary(u))
                     => /\ body.total_income = AmountSum(own("income"))
                        /\ body.total_expenses = AmountSum(own("expense"))
              /\ (key("budget_summary") \notin DOMAIN cache /\ get_budget_summary(u))
                     => /\ body.active_budgets = Cardinality(active)
                        /\ body.total_target_amount = 100 * Cardinality(active)]_vars

----------------------------------------------------------------------------
(* C27 *)

----------------------------------------------------------------------------
(* C28 *)

\* the trend list a get_trend call returns from this store
TrendOutcome(granularity, kind, u, query) ==
    LET rows == FilteredInRange(kind, u, query)
    IN  SortedByPeriod({TrendItem(rows, granularity, PeriodLabel(granularity, t)) :
                           t \in rows})

\* the daily items whose period label starts with the month
DaysOfMonth(daily, month) ==
    SelectSeq(daily, LAMBDA d : SubSeq(d.period, 1, 2) = month)

\* the total and the count of a list of items are those of the summary
AgreesWithSummary(items, summary) ==
    /\ SumOver(items, "total_amount") = summary.total
    /\ SumOver(items, "transaction_count") = summary.total_transactions

\* the four views user u gets of one kind and one range from this store
\* agree
ViewsAgree(kind, u, query) ==
    LET summary == SummaryBody(kind, u, query)
        monthly == TrendOutcome("monthly", kind, u, query)
        daily == TrendOutcome("daily", kind, u, query)
    IN  /\ \A categories \in CategoryOutcomes(kind, u, query) :
               AgreesWithSummary(categories, summary)
        /\ AgreesWithSummary(monthly, summary)
        /\ AgreesWithSummary(daily, summary)
        /\ \A i \in DOMAIN monthly :
               /\ monthly[i].total_amount =
                    SumOver(DaysOfMonth(daily, monthly[i].period), "total_amount")
               /\ monthly[i].transaction_count =
                    SumOver(DaysOfMonth(daily, monthly[i].period), "transaction_count")

\* C28: for the same user, date range and stored transactions the four
\* views of a kind agree: the summary's total and transaction count equal
\* the sums of total_amount and transaction_count over the items of the
\* category summary, of the monthly trend and of the daily trend, and each
\* monthly item equals the sum of the daily items whose period label starts
\* with that month. Stated when one of the views has been returned, which
\* is then the view of some user, for the kind and the range it echoes; the
\* store does not change in this specification.
C28_FourViewsAgree ==
    (response.status = "Ok" /\ response.shape \in {"summary", "category_summary", "trend"})
        => LET body == response.body[1]
               kind == body.kind
               query == QueryOf(body)
           IN  /\ \E u \in Users :
                      CASE response.shape = "summary" -> body = SummaryBody(kind, u, query)
                        [] response.shape = "category_summary" ->
                             body.categories \in CategoryOutcomes(kind, u, query)
                        [] response.shape = "trend" ->
                             body.trends = TrendOutcome(body.granularity, kind, u, query)
               /\ \A u \in Users : ViewsAgree(kind, u, query)

\* a daily trend of three days or more that spans two months has been
\* returned
C28_Witness ==
    /\ response.shape = "trend"
    /\ response.body[1].granularity = "daily"
    /\ Len(response.body[1].trends) >= 3
    /\ response.body[1].trends[1].period[2]
           # response.body[1].trends[Len(response.body[1].trends)].period[2]

----------------------------------------------------------------------------
(* C29 *)

\* every expense of user u is stored with transaction_type expense and a
\* negative amount, the form the expense analytics count
ExpensesAreNegative(u) ==
    \A t \in transactions :
        t.user_id = u => (t.transaction_type = "expense" <=> t.amount < 0)

\* the total the expense category summary of u reports for a category over
\* the period of a performance item: 0 when the summary has no such item
CategoryTotal(u, item, categories) ==
    SumOver(SelectSeq(categories, LAMBDA c : c.category = item.category), "total_amount")

\* C29: for a user all of whose expenses are stored with kind expense and a
\* negative amount, the spent_amount that get_budget_performance reports for
\* an active budget with category C and period [s, e] equals the
\* total_amount that the expense get_category_summary reports for C over
\* [s, e], and is never negative.
C29_SpentIsCategoryTotal ==
    [][\A u \in Users :
          (ExpensesAreNegative(u) /\ get_budget_performance(u)) =>
              \A i \in DOMAIN response'.body[1].budgets :
                  LET item == response'.body[1].budgets[i]
                      query == [from_date |-> item.period_start,
                                to_date |-> item.period_end]
                  IN  /\ item.spent_amount >= 0
                      /\ \A categories \in CategoryOutcomes("expense", u, query) :
                             item.spent_amount = CategoryTotal(u, item, categories)]_vars

----------------------------------------------------------------------------
(* SpecAuth: the analytics routes behind middleware/auth.rs: a request      *)
(* carries a bearer token that verifies for one user, or none that does     *)

\* auth_middleware: the rejection, or the extensions the handler is called
\* with: those the application layers insert (main.rs) and the AuthUser of
\* the token's subject
auth_middleware(token) ==
    IF ~IsSome(token) THEN [status |-> "Unauthorized", extensions |-> <<>>]
    ELSE [status |-> "Ok",
          extensions |-> [type \in {"PgPool", "JwtConfig", "CacheService", "AuthUser"} |->
                             IF type = "AuthUser" THEN Unwrap(token) ELSE "shared"]]

\* a route of expense_analytics_routes / income_analytics_routes: the
\* middleware, the handler's Extension<uuid::Uuid> extractor, which rejects
\* the request when no extension of that type is present, and the handler
\* body called with the identity extracted
analytics_route(token, op, kind, arg) ==
    LET passed == auth_middleware(token)
    IN  IF passed.status # "Ok"
        THEN response' = Resp(passed.status, <<>>) /\ ReadOnly
        ELSE IF "uuid::Uuid" \notin DOMAIN passed.extensions
        THEN response' = Resp("InternalServerError", <<>>) /\ ReadOnly
        ELSE LET user_id == passed.extensions["uuid::Uuid"]
             IN  CASE op = "summary" -> get_summary(kind, user_id, arg)
                   [] op = "category-summary" -> get_category_summary(kind, user_id, arg)
                   [] op = "monthly-trend" -> get_trend("monthly", kind, user_id, arg)
                   [] op = "daily-trend" -> get_trend("daily", kind, user_id, arg)
                   [] op = "recent" -> get_recent_transactions(kind, user_id, arg)

NextAuth ==
    \E token \in {None} \cup {Some(u) : u \in Users}, kind \in {"expense", "income"} :
        \/ \E query \in DateRanges,
               op \in {"summary", "category-summary", "monthly-trend", "daily-trend"} :
               analytics_route(token, op, kind, query)
        \/ \E limit \in RecentLimits : analytics_route(token, "recent", kind, limit)

SpecAuth == InitAnalytics /\ [][NextAuth]_vars

----------------------------------------------------------------------------
(* C30 *)

\* C30: for a request that carries a valid bearer token of user U, every
\* expense-analytics and income-analytics handler finds the caller identity
\* it extracts among the request extensions that auth_middleware inserted
\* and calls its service with user_id = U, so the request is answered by
\* the service: with Ok or, for a bad date, BadRequest; a request without a
\* valid token never reaches the handler.
C30_AnalyticsHandlerFindsCaller ==
    [][\/ response'.status \in {"Ok", "BadRequest", "Unauthorized"}
       \/ \A u \in Users, kind \in {"expense", "income"}, query \in DateRanges :
              ~analytics_route(Some(u), "summary", kind, query)]_vars

====
